---------------------------- MODULE Spec2Model ----------------------------
(***************************************************************************)
(* Verification model of the slay-the-bear server: the financial           *)
(* calculator engine (CalculatorService), its HTTP controller and the      *)
(* market-data fetches of the portfolio optimizer.                         *)
(*                                                                         *)
(* JavaScript numbers are modelled as exact rationals [n, d] (d > 0,       *)
(* lowest terms) extended with NaN (d = 0): every arithmetic step of the   *)
(* source is carried out exactly, so results agree with the IEEE doubles   *)
(* of the program up to their rounding error.                              *)
(***************************************************************************)
EXTENDS Integers, Sequences, FiniteSets, TLC

VARIABLES
    \* ---- CalculatorService.calculateLoanAmortization ----
    loanInput,              \* the validated request body
    loanPc,                 \* "call" | "loop" | "return" | "done"
    totalPayments,          \* const totalPayments
    monthlyInterestRate,    \* const monthlyInterestRate
    baseMonthlyPayment,     \* const baseMonthlyPayment
    loanI,                  \* the loop counter i
    balance,                \* let balance (the running balance)
    amortizationSchedule,   \* the rows pushed so far
    totalInterestPaid,
    totalPrincipalPaid,
    loanResult,             \* the returned summary, or Null
    runningBalances,        \* history: the running balance after each pushed row
    \* ---- CalculatorService.optimizePortfolio: the market-data fetches ----
    symbols,                \* input.symbols (a sequence of ticker symbols)
    portfolioPc,            \* "call" | "awaiting" | "returned" | "thrown"
    fetchState,             \* per position: "pending" | "fulfilled" | "rejected"
    fetchValue,             \* per position: the prices or the Error it settled with
    fetchCalls,             \* per position: calls of alpha.data.monthly so far
    allPromise,             \* the promise of Promise.all: [state, value]
    portfolioOutcome,       \* what the call returned or threw, or Null
    \* ---- CalculatorService.getStockData on one provider answer ----
    now,                    \* Date.now(), in days (shared with the fetch model)
    stockAnswer,            \* what alpha.data.monthly(symbol) settled with
    stockPc,                \* "call" | "fetched" | "failed" | "returns"
    stockPrices,            \* the array getStockData resolved with
    stockReturns,           \* the month-over-month returns derived from it
    \* ---- CalculatorService.simpleOptimization ----
    optInput,               \* [numAssets, returns, targetReturn]
    optPc,                  \* "search" | "searched" | "done"
    iter,                   \* the loop counters i of the nested generateWeights calls
    bestWeights,            \* let bestWeights
    bestVolatility,         \* let bestVolatility
    usedFallback,           \* whether the branch of line 1610 was taken
    optResult,              \* the returned weights, or <<>>
    \* ---- CalculatorController: break-even and credit-payoff requests ----
    calcRequest,            \* [route, body]: the request being handled
    calcPc,                 \* "received" | "threw" | "responded"
    calcOutcome,            \* what the CalculatorService call returned or threw
    calcThrown,             \* the error the controller threw, or Null
    calcResponse,           \* [status, body] sent to the caller, or Null
    \* ---- CalculatorService.analyzeStock ----
    anInput,                \* [symbol, term]: the validated request body
    anPc,                   \* "overview" | "weekly" | "quote" | "returned" | "thrown"
    anCalls,                \* axios.get calls made so far
    companyName,            \* const companyName
    peRatio,                \* const peRatio
    pbRatio,                \* const pbRatio
    weeklyPrices,           \* const weeklyPrices, in the order of the provider's response
    intrinsicValue,         \* const intrinsicValue
    currentPrice,           \* const currentPrice
    rsiChanges,             \* history: the values of change in calculateRSI
    rsi,                    \* const rsi
    anCause,                \* history: what reached the catch block, or Null
    anThrown,               \* the error analyzeStock threw, or Null
    anResult,               \* the returned analysis, or Null
    \* ---- CalculatorService: one call of a calculator function ----
    svcCall,                \* [name, input]: the function called and its validated input
    svcPc,                  \* "called" | "awaiting" | "returned" | "thrown"
    svcRequests,            \* axios requests issued by the call so far
    svcResult,              \* the returned result, or Null
    svcThrown,              \* the error thrown, or Null
    \* ---- the database tables users, subscriptions, subscription_entries ----
    users,                  \* per email: the row of the users table, or Null
    subscriptions,          \* the rows of the subscriptions table, in insertion order
    subscriptionEntries,    \* the rows of subscription_entries, in insertion order
    \* ---- AuthService and EmailService ----
    authNow,                \* new Date() / Date.now(), in units of half an hour
    issued,                 \* history: issued[k] is the time token k was generated
    mail,                   \* the emails handed to resend.emails.send, in order
    authLast,               \* history: the last AuthService call, its arguments and outcome
    verifiedLog,            \* history: the tokens verifyEmail accepted, with the time
    resetGrants,            \* history: per user id, reset tokens verified and not yet used
    \* ---- WebhookController.handleStripe: the deliveries being processed ----
    deliveries,             \* per delivery: the request, its position and its locals
    \* ---- authenticate / requirePremium on the premium calculator routes ----
    jwts,                   \* the unexpired tokens issued so far: [kind, id, plan]
    premiumLast             \* history: the last request to a premium route and its outcome

loanVars == <<loanInput, loanPc, totalPayments, monthlyInterestRate,
              baseMonthlyPayment, loanI, balance, amortizationSchedule,
              totalInterestPaid, totalPrincipalPaid, loanResult, runningBalances>>

fetchVars == <<symbols, portfolioPc, fetchState, fetchValue, fetchCalls,
               allPromise, portfolioOutcome>>

stockVars == <<stockAnswer, stockPc, stockPrices, stockReturns>>

optVars == <<optInput, optPc, iter, bestWeights, bestVolatility, usedFallback,
             optResult>>

calcVars == <<calcRequest, calcPc, calcOutcome, calcThrown, calcResponse>>

anVars == <<anInput, anPc, anCalls, companyName, peRatio, pbRatio, weeklyPrices,
            intrinsicValue, currentPrice, rsiChanges, rsi, anCause, anThrown,
            anResult>>

svcVars == <<svcCall, svcPc, svcRequests, svcResult, svcThrown>>

acctVars == <<users, subscriptions, subscriptionEntries, authNow, issued, mail,
              authLast, verifiedLog, resetGrants, deliveries, jwts, premiumLast>>

vars == <<loanVars, fetchVars, stockVars, now, optVars, calcVars, anVars, svcVars, acctVars>>

\* what the actions of one part leave alone: the variables of the other parts
LoanFrame == UNCHANGED <<fetchVars, stockVars, now, optVars, calcVars, anVars, svcVars, acctVars>>
FetchFrame == UNCHANGED <<loanVars, stockVars, optVars, calcVars, anVars, svcVars, acctVars>>
StockFrame == UNCHANGED <<loanVars, fetchVars, optVars, calcVars, anVars, svcVars, acctVars>>
OptFrame == UNCHANGED <<loanVars, fetchVars, stockVars, now, calcVars, anVars, svcVars, acctVars>>
CalcFrame == UNCHANGED <<loanVars, fetchVars, stockVars, now, optVars, anVars, svcVars, acctVars>>
AnFrame == UNCHANGED <<loanVars, fetchVars, stockVars, now, optVars, calcVars, svcVars, acctVars>>
SvcFrame == UNCHANGED <<loanVars, fetchVars, stockVars, now, optVars, calcVars, anVars, acctVars>>
AcctFrame == UNCHANGED <<loanVars, fetchVars, stockVars, now, optVars, calcVars, anVars, svcVars>>

Null == [null |-> TRUE]

-----------------------------------------------------------------------------
(* Numbers *)

RECURSIVE Gcd(_, _)
Gcd(a, b) == IF b = 0 THEN a ELSE Gcd(b, a % b)

Abs(x) == IF x < 0 THEN -x ELSE x

NaN == [n |-> 0, d |-> 0]

IsNaN(x) == x.d = 0

\* the number n/d in lowest terms (d # 0)
Rat(n, d) ==
    LET s == IF d < 0 THEN -1 ELSE 1
        g == Gcd(Abs(n), Abs(d))
    IN [n |-> (s * n) \div g, d |-> (s * d) \div g]

Num(k) == [n |-> k, d |-> 1]

RAdd(a, b) ==
    IF IsNaN(a) \/ IsNaN(b) THEN NaN
    ELSE LET g == Gcd(a.d, b.d)
         IN Rat(a.n * (b.d \div g) + b.n * (a.d \div g), (a.d \div g) * b.d)

RNeg(a) == IF IsNaN(a) THEN NaN ELSE [n |-> -a.n, d |-> a.d]

RSub(a, b) == RAdd(a, RNeg(b))

RMul(a, b) ==
    IF IsNaN(a) \/ IsNaN(b) THEN NaN
    ELSE LET g1 == Gcd(Abs(a.n), b.d)
             g2 == Gcd(Abs(b.n), a.d)
         IN Rat((a.n \div g1) * (b.n \div g2), (a.d \div g2) * (b.d \div g1))

\* a / b; 0/0 is NaN (a nonzero dividend over 0 does not occur in the model)
RDiv(a, b) ==
    IF IsNaN(a) \/ IsNaN(b) THEN NaN
    ELSE IF b.n = 0 THEN NaN
    ELSE RMul(a, Rat(b.d, b.n))

\* comparisons: every comparison with NaN is false
RLe(a, b) == ~IsNaN(a) /\ ~IsNaN(b) /\ a.n * b.d <= b.n * a.d
RLt(a, b) == ~IsNaN(a) /\ ~IsNaN(b) /\ a.n * b.d < b.n * a.d
RGe(a, b) == RLe(b, a)
RGt(a, b) == RLt(b, a)

\* Math.max(a, b): NaN when either argument is NaN
RMax(a, b) == IF IsNaN(a) \/ IsNaN(b) THEN NaN ELSE IF RLt(a, b) THEN b ELSE a

IsInteger(a) == a.d = 1

\* base^k for an integer k >= 0
RECURSIVE RPowNat(_, _)
RPowNat(base, k) == IF k = 0 THEN Num(1) ELSE RMul(base, RPowNat(base, k - 1))

\* Math.pow(base, e) for base > 0: exact for an integer e, and for base = 1
\* (1^e = 1 for every finite e); other arguments are outside the model's inputs
RPow(base, e) ==
    IF IsNaN(base) \/ IsNaN(e) THEN NaN
    ELSE IF base = Num(1) THEN Num(1)
    ELSE IF e.n >= 0 THEN RPowNat(base, e.n)
    ELSE RPowNat(Rat(base.d, base.n), -e.n)

\* Math.ceil for a finite number
Ceil(a) == IF a.n >= 0 THEN (a.n + a.d - 1) \div a.d ELSE -((-a.n) \div a.d)

\* parseFloat(x.toFixed(2)): x rounded to the nearest cent, halves away from zero
ToFixed2(a) ==
    IF IsNaN(a) THEN NaN
    ELSE LET whole == Abs(a.n) \div a.d
             frac == Abs(a.n) % a.d
             tenths == (10 * frac) \div a.d
             rest == (10 * frac) % a.d
             hundredths == (10 * rest) \div a.d
             up == IF 2 * ((10 * rest) % a.d) >= a.d THEN 1 ELSE 0
             q == whole * 100 + tenths * 10 + hundredths + up
         IN Rat(IF a.n < 0 THEN -q ELSE q, 100)

-----------------------------------------------------------------------------
(* CalculatorService.calculateLoanAmortization *)

MaxPayments == 3

\* inputs accepted by loanAmortizationCalculatorSchema
LoanPrincipals == {Num(300), Num(1200)}
LoanRates == {Num(0), Num(100)}
LoanExtraPayments == {Num(0), Num(25), Num(156), Num(200)}
\* loanTerm for 'months' (whole, and one fractional term that only the zero
\* rate can price exactly) and for 'years' (twelfths of a year)
LoanTerms(type) ==
    IF type = "years" THEN {Rat(k, 12) : k \in 1..MaxPayments}
    ELSE {Num(k) : k \in 1..MaxPayments} \cup {Rat(3, 2)}

loanAmortizationCalculatorSchema(input) ==
    /\ RGt(input.principal, Num(0))
    /\ RGe(input.annualInterestRate, Num(0))
    /\ RLe(input.annualInterestRate, Num(100))
    /\ RGt(input.loanTerm, Num(0))
    /\ RGe(input.extraPayment, Num(0))
    /\ input.loanTermType \in {"years", "months"}

LoanInputs ==
    {in \in UNION {[principal : LoanPrincipals, annualInterestRate : LoanRates,
                    loanTerm : LoanTerms(t), extraPayment : LoanExtraPayments,
                    loanTermType : {t}] : t \in {"years", "months"}} :
        /\ loanAmortizationCalculatorSchema(in)
        /\ (in.annualInterestRate # Num(0) =>
              IsInteger(IF in.loanTermType = "years"
                        THEN RMul(in.loanTerm, Num(12)) ELSE in.loanTerm))}

LoanInit ==
    /\ loanInput \in LoanInputs
    /\ loanPc = "call"
    /\ totalPayments = Null
    /\ monthlyInterestRate = Null
    /\ baseMonthlyPayment = Null
    /\ loanI = 0
    /\ balance = Null
    /\ amortizationSchedule = <<>>
    /\ totalInterestPaid = Null
    /\ totalPrincipalPaid = Null
    /\ loanResult = Null
    /\ runningBalances = <<>>

\* lines 1177-1190: the term in months, the monthly rate, the annuity payment
LoanSetup ==
    /\ loanPc = "call"
    /\ LET tp == IF loanInput.loanTermType = "years"
                 THEN RMul(loanInput.loanTerm, Num(12)) ELSE loanInput.loanTerm
           r == RDiv(RDiv(loanInput.annualInterestRate, Num(100)), Num(12))
       IN /\ totalPayments' = tp
          /\ monthlyInterestRate' = r
          /\ baseMonthlyPayment' =
                RDiv(RMul(loanInput.principal, r),
                     RSub(Num(1), RPow(RAdd(Num(1), r), RNeg(tp))))
    /\ balance' = loanInput.principal
    /\ amortizationSchedule' = <<>>
    /\ totalInterestPaid' = Num(0)
    /\ totalPrincipalPaid' = Num(0)
    /\ loanI' = 1
    /\ loanPc' = "loop"
    /\ UNCHANGED <<loanInput, loanResult, runningBalances>>
    /\ LoanFrame

\* the loop test i <= totalPayments
LoanLoopTest(i, tp) == RLe(Num(i), tp)

\* variant: the early exit taken only on a negative balance
LoanBreakStrict(bal) == RLt(bal, Num(0))

\* the early exit: if (balance <= 0) break
LoanBreak(bal) == RLe(bal, Num(0))

\* the row pushed for period i
LoanRow(i, principalPayment, interestPayment, bal) ==
    [month |-> i,
     principalPayment |-> ToFixed2(principalPayment),
     interestPayment |-> ToFixed2(interestPayment),
     balance |-> ToFixed2(RMax(bal, Num(0)))]

\* lines 1192-1208: one iteration of the period loop
LoanPeriod ==
    /\ loanPc = "loop"
    /\ LoanLoopTest(loanI, totalPayments)
    /\ LET interestPayment == RMul(balance, monthlyInterestRate)
           principalPayment ==
               RSub(RAdd(baseMonthlyPayment, loanInput.extraPayment), interestPayment)
           newBalance == RSub(balance, principalPayment)
       IN /\ balance' = newBalance
          /\ totalInterestPaid' = RAdd(totalInterestPaid, interestPayment)
          /\ totalPrincipalPaid' = RAdd(totalPrincipalPaid, principalPayment)
          /\ amortizationSchedule' =
                Append(amortizationSchedule,
                       LoanRow(loanI, principalPayment, interestPayment, newBalance))
          /\ runningBalances' = Append(runningBalances, newBalance)
          /\ IF LoanBreak(newBalance)
             THEN loanPc' = "return" /\ loanI' = loanI
             ELSE loanPc' = "loop" /\ loanI' = loanI + 1
    /\ UNCHANGED <<loanInput, totalPayments, monthlyInterestRate,
                   baseMonthlyPayment, loanResult>>
    /\ LoanFrame

\* the loop test fails: the term has elapsed
LoanLoopExit ==
    /\ loanPc = "loop"
    /\ ~LoanLoopTest(loanI, totalPayments)
    /\ loanPc' = "return"
    /\ UNCHANGED <<loanInput, totalPayments, monthlyInterestRate, baseMonthlyPayment,
                   loanI, balance, amortizationSchedule, totalInterestPaid,
                   totalPrincipalPaid, loanResult, runningBalances>>
    /\ LoanFrame

\* lines 1210-1228: the returned record
LoanReturn ==
    /\ loanPc = "return"
    /\ loanResult' =
          [amortizationSchedule |-> amortizationSchedule,
           summary |->
              [totalPayments |-> Len(amortizationSchedule),
               baseMonthlyPayment |-> ToFixed2(baseMonthlyPayment),
               totalMonthlyPayment |->
                   ToFixed2(RAdd(baseMonthlyPayment, loanInput.extraPayment)),
               totalInterestPaid |-> ToFixed2(totalInterestPaid),
               totalPrincipalPaid |-> ToFixed2(totalPrincipalPaid),
               totalAmountPaid |->
                   ToFixed2(RAdd(totalInterestPaid, totalPrincipalPaid))],
           inputs |-> loanInput,
           message |-> <<"Loan will be paid off in ", Len(amortizationSchedule), " months">>]
    /\ loanPc' = "done"
    /\ UNCHANGED <<loanInput, totalPayments, monthlyInterestRate, baseMonthlyPayment,
                   loanI, balance, amortizationSchedule, totalInterestPaid,
                   totalPrincipalPaid, runningBalances>>
    /\ LoanFrame


\* ---- claims about the period loop ----

\* the nominal term in months, as the claim states it
NominalTerm(in) ==
    IF in.loanTermType = "years" THEN RMul(in.loanTerm, Num(12)) ELSE in.loanTerm

\* C1: the period loop adds exactly one row per period, numbered consecutively
\* from month 1; it stops right after the first row whose running balance is
\* <= 0 (no row follows such a row) and never holds more rows than the nominal
\* term in months.
C1_PeriodLoop ==
    loanPc # "call" =>
        /\ Len(runningBalances) = Len(amortizationSchedule)
        /\ \A k \in 1..Len(amortizationSchedule) : amortizationSchedule[k].month = k
        /\ (loanPc = "loop" => Len(amortizationSchedule) = loanI - 1)
        /\ \A k \in 1..Len(amortizationSchedule) :
              RLe(runningBalances[k], Num(0)) =>
                  /\ k = Len(amortizationSchedule)
                  /\ loanPc # "loop"
        /\ RLe(Num(Len(amortizationSchedule)), NominalTerm(loanInput))

\* an extra payment ended the schedule before the nominal term
C1_Witness ==
    /\ loanPc = "done"
    /\ Len(amortizationSchedule) >= 2
    /\ RLt(Num(Len(amortizationSchedule)), NominalTerm(loanInput))
    /\ RLe(runningBalances[Len(runningBalances)], Num(0))

RECURSIVE SumPrincipalPayments(_)
SumPrincipalPayments(rows) ==
    IF rows = <<>> THEN Num(0)
    ELSE RAdd(rows[1].principalPayment, SumPrincipalPayments(Tail(rows)))

RAbs(a) == IF IsNaN(a) THEN NaN ELSE [n |-> Abs(a.n), d |-> a.d]

\* C2: when the schedule ends, the principal portions of its rows sum to the
\* original principal up to rounding (a cent per row), and the reported
\* balance of the last row is 0.
C2_PrincipalRepaid ==
    loanPc = "done" =>
        /\ Len(amortizationSchedule) >= 1
        /\ RLe(RAbs(RSub(SumPrincipalPayments(amortizationSchedule),
                         loanInput.principal)),
               Rat(Len(amortizationSchedule), 100))
        /\ amortizationSchedule[Len(amortizationSchedule)].balance = Num(0)

LoanNext == LoanSetup \/ LoanPeriod \/ LoanLoopExit \/ LoanReturn

LoanIdle ==
    /\ loanInput = Null /\ loanPc = "idle" /\ totalPayments = Null
    /\ monthlyInterestRate = Null /\ baseMonthlyPayment = Null /\ loanI = 0
    /\ balance = Null /\ amortizationSchedule = <<>> /\ totalInterestPaid = Null
    /\ totalPrincipalPaid = Null /\ loanResult = Null /\ runningBalances = <<>>

-----------------------------------------------------------------------------
(* CalculatorService.optimizePortfolio and getStockData: the per-symbol     *)
(* market-data fetches under Promise.all                                    *)

MaxSymbols == 3

SymbolNames == <<"AAA", "BBB", "CCC", "DDD">>

JsError(message) == [name |-> "Error", message |-> message]

\* the length of the price history handed to the optimizer
HistoryMonths == 60

\* the look-back window of line 1633, in days
WindowDays == 5 * 365

\* the closing prices of a monthly series in ascending order of date
\* (lines 1627-1632: Object.entries, map, sort by date)
RECURSIVE SortByDate(_)
SortByDate(series) ==
    IF series = {} THEN <<>>
    ELSE LET first == CHOOSE e \in series : \A o \in series : e.date <= o.date
         IN <<first>> \o SortByDate(series \ {first})

\* line 1633: the entries dated within the window
InWindow(sorted, t) ==
    SelectSeq(sorted, LAMBDA item : item.date >= t - WindowDays)

\* variant: pads with the latest price instead of the earliest
PadLeftWithLast(prices) ==
    [i \in 1..(HistoryMonths - Len(prices)) |->
        IF prices = <<>> THEN 0 ELSE prices[Len(prices)]] \o prices

\* lines 1636-1639: Array(60 - length).fill(prices[0] || 0) before the prices
PadLeft(prices) ==
    [i \in 1..(HistoryMonths - Len(prices)) |->
        IF prices = <<>> \/ prices[1] = 0 THEN 0 ELSE prices[1]] \o prices

\* line 1641: prices.slice(-60)
SliceLast(prices) == SubSeq(prices, Len(prices) - HistoryMonths + 1, Len(prices))

\* getStockData, lines 1617-1646: what the promise settles with, given what
\* alpha.data.monthly(symbol) settled with: a rejection, or a response that
\* may hold a 'Monthly Time Series' (hasSeries) of dated closes
getStockData(symbol, answer, t) ==
    IF answer.kind = "rejected"
    THEN [state |-> "rejected",
          value |-> JsError(<<"Failed to fetch data for ", symbol, ": ">> \o
                            (IF answer.reason.name = "Error"
                             THEN answer.reason.message ELSE <<"Unknown error">>))]
    ELSE IF ~answer.hasSeries
    THEN [state |-> "rejected",
          value |-> JsError(<<"Failed to fetch data for ", symbol, ": ",
                              "No monthly time series data for ", symbol>>)]
    ELSE LET sorted == InWindow(SortByDate(answer.series), t)
             prices == [i \in 1..Len(sorted) |-> sorted[i].price]
         IN [state |-> "fulfilled",
             value |-> IF Len(prices) < HistoryMonths
                       THEN PadLeft(prices) ELSE SliceLast(prices)]

\* lines 1719-1725: the percentage changes of one price array
PercentageChanges(priceArray) ==
    [i \in 1..(Len(priceArray) - 1) |->
        RDiv(Num(priceArray[i + 1] - priceArray[i]), Num(priceArray[i]))]

\* variant: settles like Promise.allSettled: fulfilled once nothing is pending
PromiseAllSettled(states, values, prev) ==
    IF prev.state # "pending" THEN prev
    ELSE IF \A i \in DOMAIN states : states[i] # "pending"
    THEN [state |-> "fulfilled",
          value |-> [i \in {j \in DOMAIN states : states[j] = "fulfilled"} |-> values[i]]]
    ELSE prev

\* Promise.all over the fetches (line 1704): rejected with the reason of the
\* first rejection, fulfilled with every value once all are fulfilled
PromiseAll(states, values, prev) ==
    IF prev.state # "pending" THEN prev
    ELSE IF \E i \in DOMAIN states : states[i] = "rejected"
    THEN [state |-> "rejected",
          value |-> values[CHOOSE i \in DOMAIN states : states[i] = "rejected"]]
    ELSE IF \A i \in DOMAIN states : states[i] = "fulfilled"
    THEN [state |-> "fulfilled", value |-> values]
    ELSE prev

\* what the provider can answer one request with in the fetch model: a short
\* monthly series, a response without one, or a failure of the library call
ProviderAnswers ==
    { [kind |-> "resolved", hasSeries |-> TRUE,
       series |-> {[date |-> 3970, price |-> 10], [date |-> 4000, price |-> 11]}],
      [kind |-> "resolved", hasSeries |-> FALSE, series |-> {}],
      [kind |-> "rejected", reason |-> JsError(<<"provider error">>)],
      [kind |-> "rejected", reason |-> [name |-> "string", message |-> <<"timeout">>]] }

FetchInit ==
    /\ \E n \in 2..MaxSymbols : symbols = SubSeq(SymbolNames, 1, n)
    /\ portfolioPc = "call"
    /\ fetchState = [i \in DOMAIN symbols |-> "idle"]
    /\ fetchValue = [i \in DOMAIN symbols |-> Null]
    /\ fetchCalls = [i \in DOMAIN symbols |-> 0]
    /\ allPromise = [state |-> "pending", value |-> Null]
    /\ portfolioOutcome = Null
    /\ now = 4000

\* lines 1704-1714: symbols.map issues one getStockData per symbol, all at
\* once, and the call awaits Promise.all of them
IssueFetches ==
    /\ portfolioPc = "call"
    /\ portfolioPc' = "awaiting"
    /\ fetchState' = [i \in DOMAIN symbols |-> "pending"]
    /\ fetchCalls' = [i \in DOMAIN symbols |-> fetchCalls[i] + 1]
    /\ UNCHANGED <<symbols, fetchValue, allPromise, portfolioOutcome, now>>
    /\ FetchFrame

\* the provider answers the request of position i; getStockData settles, the
\* callback of line 1705 passes the value on or rethrows the same error
\* (lines 1709-1712), and Promise.all takes note
FetchSettles(i, answer) ==
    /\ fetchState[i] = "pending"
    /\ LET out == getStockData(symbols[i], answer, now)
           states == [fetchState EXCEPT ![i] = out.state]
           values == [fetchValue EXCEPT ![i] = out.value]
       IN /\ fetchState' = states
          /\ fetchValue' = values
          /\ allPromise' = PromiseAll(states, values, allPromise)
    /\ UNCHANGED <<symbols, portfolioPc, fetchCalls, portfolioOutcome, now>>
    /\ FetchFrame

\* lines 1716-1756: the await resumes with every price series
PortfolioReturns ==
    /\ portfolioPc = "awaiting"
    /\ allPromise.state = "fulfilled"
    /\ portfolioPc' = "returned"
    /\ portfolioOutcome' =
          [kind |-> "result",
           portfolio |-> [i \in DOMAIN allPromise.value |-> symbols[i]],
           prices |-> allPromise.value]
    /\ UNCHANGED <<symbols, fetchState, fetchValue, fetchCalls, allPromise, now>>
    /\ FetchFrame

\* lines 1757-1763: the await throws the rejection reason into the catch block
PortfolioThrows ==
    /\ portfolioPc = "awaiting"
    /\ allPromise.state = "rejected"
    /\ portfolioPc' = "thrown"
    /\ portfolioOutcome' =
          [kind |-> "error",
           error |-> IF allPromise.value.name = "Error"
                     THEN JsError(<<"Portfolio optimization failed: ">> \o
                                  allPromise.value.message)
                     ELSE JsError(<<"Portfolio optimization failed. Please check symbols and try again.">>)]
    /\ UNCHANGED <<symbols, fetchState, fetchValue, fetchCalls, allPromise, now>>
    /\ FetchFrame

FetchNext ==
    \/ IssueFetches
    \/ \E i \in DOMAIN symbols, answer \in ProviderAnswers : FetchSettles(i, answer)
    \/ PortfolioReturns
    \/ PortfolioThrows

FetchIdle ==
    /\ symbols = <<>> /\ portfolioPc = "idle" /\ fetchState = <<>>
    /\ fetchValue = <<>> /\ fetchCalls = <<>> /\ allPromise = Null
    /\ portfolioOutcome = Null

\* C3: under every interleaving of the fetches, returns and weights are
\* computed (the call returns a portfolio) only after the fetch of every
\* requested symbol has succeeded; once the fetch of any symbol has failed the
\* call never returns a portfolio, whole or partial, and ends by throwing; no
\* symbol is fetched more than once.
C3_AllOrNothing ==
    /\ (portfolioPc = "returned" =>
          /\ \A i \in DOMAIN symbols : fetchState[i] = "fulfilled"
          /\ portfolioOutcome.kind = "result"
          /\ DOMAIN portfolioOutcome.portfolio = DOMAIN symbols)
    /\ ((\E i \in DOMAIN symbols : fetchState[i] = "rejected") =>
          /\ portfolioPc \in {"awaiting", "thrown"}
          /\ allPromise.state = "rejected"
          /\ (portfolioPc = "thrown" => portfolioOutcome.kind = "error"))
    /\ \A i \in DOMAIN symbols : fetchCalls[i] <= 1

\* one fetch failed, the others succeeded (one of them after the call had
\* already failed), and the call threw
C3_Witness ==
    /\ portfolioPc = "thrown"
    /\ Cardinality({i \in DOMAIN symbols : fetchState[i] = "rejected"}) = 1
    /\ Cardinality({i \in DOMAIN symbols : fetchState[i] = "fulfilled"}) = Len(symbols) - 1
    /\ Len(symbols) = 3


-----------------------------------------------------------------------------
(* CalculatorService.getStockData and the returns derived from its prices   *)

MaxMonths == 63

\* how many days before now the latest close of a series is dated: current
\* data (0, 40), a symbol whose data ends months ago (100), and one whose
\* data ends before the look-back window (1830)
LatestAges == {0, 40, 100, 1830}

\* a monthly series of count closes, 30 days apart, the latest one dated
\* latestAge days before t; neighbouring closes differ
MonthlySeries(t, latestAge, count) ==
    {[date |-> t - latestAge - 30 * j, price |-> 50 + ((7 * j) % 11)] : j \in 0..(count - 1)}

StockInit ==
    /\ now = 4000
    /\ \/ \E age \in LatestAges, count \in 0..MaxMonths :
             stockAnswer = [kind |-> "resolved", hasSeries |-> TRUE,
                            series |-> MonthlySeries(now, age, count)]
       \/ stockAnswer = [kind |-> "resolved", hasSeries |-> FALSE, series |-> {}]
       \/ stockAnswer = [kind |-> "rejected", reason |-> JsError(<<"provider error">>)]
    /\ stockPc = "call"
    /\ stockPrices = <<>>
    /\ stockReturns = <<>>

\* getStockData resolves with the prices
StockFetched ==
    /\ stockPc = "call"
    /\ LET out == getStockData("AAA", stockAnswer, now)
       IN /\ out.state = "fulfilled"
          /\ stockPrices' = out.value
    /\ stockPc' = "fetched"
    /\ UNCHANGED <<now, stockAnswer, stockReturns>>
    /\ StockFrame

\* getStockData rejects
StockFailed ==
    /\ stockPc = "call"
    /\ getStockData("AAA", stockAnswer, now).state = "rejected"
    /\ stockPc' = "failed"
    /\ UNCHANGED <<now, stockAnswer, stockPrices, stockReturns>>
    /\ StockFrame

\* optimizePortfolio derives the returns of the price array
StockReturns ==
    /\ stockPc = "fetched"
    /\ stockReturns' = PercentageChanges(stockPrices)
    /\ stockPc' = "returns"
    /\ UNCHANGED <<now, stockAnswer, stockPrices>>
    /\ StockFrame

StockNext == StockFetched \/ StockFailed \/ StockReturns

StockIdle ==
    /\ stockAnswer = Null /\ stockPc = "idle" /\ stockPrices = <<>> /\ stockReturns = <<>>

\* ---- claims about the price history ----

\* the closes of the answered series dated within the look-back window
ClosesInWindow == {e \in stockAnswer.series : e.date >= now - WindowDays}

\* the close of a set of closes that has exactly k later closes in the set
KthLatest(closes, k) ==
    CHOOSE e \in closes : Cardinality({o \in closes : o.date > e.date}) = k

Earliest(closes) == CHOOSE e \in closes : \A o \in closes : e.date <= o.date

Min(a, b) == IF a < b THEN a ELSE b

\* the 60 most recent closes of a set, oldest first, or all of them preceded
\* by copies of the padding price when the set holds fewer than 60
HistoryOf(closes, padding) ==
    LET k == Min(HistoryMonths, Cardinality(closes))
    IN [i \in 1..HistoryMonths |->
          IF i <= HistoryMonths - k THEN padding
          ELSE KthLatest(closes, HistoryMonths - i).price]

\* C10 (as amended): for every symbol whose fetch succeeds getStockData returns
\* exactly 60 prices in chronological order: the 60 most recent of the monthly
\* closes dated within the last 5 x 365 days, or, when fewer than 60 such
\* closes exist, those closes preceded by copies of the earliest of them (of 0
\* when there is none); every asset contributes 59 month-over-month returns.
C10_SixtyPricesInWindow ==
    /\ (stockPc \in {"fetched", "returns"} =>
          /\ Len(stockPrices) = HistoryMonths
          /\ stockPrices =
                HistoryOf(ClosesInWindow,
                          IF ClosesInWindow = {} THEN 0
                          ELSE Earliest(ClosesInWindow).price))
    /\ (stockPc = "returns" => Len(stockReturns) = HistoryMonths - 1)

\* the window holds fewer than 60 closes although the series holds more than
\* 60: the history is padded
C10_Witness ==
    /\ stockPc = "returns"
    /\ Cardinality(stockAnswer.series) > HistoryMonths
    /\ Cardinality(ClosesInWindow) < HistoryMonths
    /\ Cardinality(ClosesInWindow) > 0
    /\ stockPrices[1] = stockPrices[2]

\* C10 (as claimed): the 60 prices are the 60 most recent monthly closes of
\* the series, or, when the series holds fewer than 60, its closes preceded by
\* copies of the earliest available close.
C10_SixtyMostRecent ==
    stockPc \in {"fetched", "returns"} =>
        /\ Len(stockPrices) = HistoryMonths
        /\ stockAnswer.series # {} =>
              stockPrices = HistoryOf(stockAnswer.series,
                                      Earliest(stockAnswer.series).price)


-----------------------------------------------------------------------------
(* CalculatorService.simpleOptimization, portfolioReturn,                   *)
(* portfolioVolatility                                                      *)
(*                                                                          *)
(* A candidate allocation is held as integers over the scale                *)
(* steps^(numAssets-1), in which every product (i / steps) * remaining of   *)
(* the search is a whole number; monthly returns are held as whole          *)
(* multiples of ReturnUnit.                                                 *)

steps == 20

MaxAssets == 3

\* the number of monthly returns per asset (59 in the program)
NumPeriods == 2

ReturnUnit == Rat(1, 100)

RECURSIVE Power(_, _)
Power(b, e) == IF e = 0 THEN 1 ELSE b * Power(b, e - 1)

\* the integer that stands for the weight 1
WeightScale(numAssets) == Power(steps, numAssets - 1)

RECURSIVE SumTo(_, _)
\* f[1] + ... + f[k]
SumTo(f, k) == IF k = 0 THEN 0 ELSE f[k] + SumTo(f, k - 1)

\* variant: the weight of a loop step taken as i/steps of the whole
gridWeightOfWhole(i, remaining, whole) == (i * whole) \div steps

\* line 1601: const weight = (i / steps) * remaining
gridWeight(i, remaining, whole) == (i * remaining) \div steps

\* lines 1583-1586, 1600-1604: the allocation the nested calls of
\* generateWeights hold when the loop counters are it; the last asset takes
\* what remains
RECURSIVE generateWeights(_, _, _, _, _)
generateWeights(index, remaining, current, it, numAssets) ==
    IF index = numAssets
    THEN current \o <<remaining>>
    ELSE LET weight == gridWeight(it[index], remaining, WeightScale(numAssets))
         IN generateWeights(index + 1, remaining - weight, current \o <<weight>>,
                            it, numAssets)

CandidateWeights(it, numAssets) ==
    generateWeights(1, WeightScale(numAssets), <<>>, it, numAssets)

\* the weights as numbers
AsNumbers(weights, numAssets) ==
    [i \in 1..numAssets |-> Rat(weights[i], WeightScale(numAssets))]

\* lines 1667-1676: mean return per asset, weighted, times 12
portfolioReturn(weights, returns, numAssets) ==
    LET periods == Len(returns[1])
        sums == [i \in 1..numAssets |-> SumTo(returns[i], periods)]
        weighted == [i \in 1..numAssets |-> sums[i] * weights[i]]
    IN RMul(Rat(12 * SumTo(weighted, numAssets), periods * WeightScale(numAssets)),
            ReturnUnit)

\* lines 1648-1666: the sample covariance of assets i and j, as the whole
\* number cov * periods^2 * (periods - 1) / ReturnUnit^2
Covariance(returns, i, j) ==
    LET periods == Len(returns[i])
        si == SumTo(returns[i], periods)
        sj == SumTo(returns[j], periods)
        terms == [k \in 1..periods |->
                    (periods * returns[i][k] - si) * (periods * returns[j][k] - sj)]
    IN SumTo(terms, periods)

\* lines 1678-1690: sqrt(weights * covMatrix * weights) * sqrt(12), held as
\* the whole number under the root in the units of Covariance and of the
\* weight scale: the two orders agree, the root being increasing
portfolioVolatility(weights, returns, numAssets) ==
    LET row == [i \in 1..numAssets |->
                  SumTo([j \in 1..numAssets |->
                            weights[i] * Covariance(returns, i, j) * weights[j]],
                        numAssets)]
    IN SumTo(row, numAssets)

Infinity == [finite |-> FALSE, value |-> 0]

\* line 1590: portReturn >= targetReturn
MeetsTarget(portReturn, targetReturn) == RGe(portReturn, targetReturn)

\* variant: keeps the candidate of larger volatility
ImprovesReversed(volatility, best) == ~best.finite \/ volatility > best.value

\* line 1592: volatility < bestVolatility
Improves(volatility, best) == ~best.finite \/ volatility < best.value

\* variant: falls back when the best volatility is still zero
NeedsFallbackOnZero(weights, best) == weights = <<>> \/ best.value = 0

\* line 1610: bestWeights.length === 0
NeedsFallback(weights, best) == weights = <<>>

\* line 1611: Array(numAssets).fill(1 / numAssets)
EqualWeights(numAssets) == [i \in 1..numAssets |-> Rat(1, numAssets)]

\* the monthly returns an asset can show, period by period
ReturnProfiles ==
    << [k \in 1..NumPeriods |-> 1],
       [k \in 1..NumPeriods |-> IF k % 2 = 1 THEN 1 ELSE -1],
       [k \in 1..NumPeriods |-> IF k % 2 = 1 THEN 0 ELSE 1],
       [k \in 1..NumPeriods |-> 0] >>

\* targets accepted by portfolioOptimizerCalculatorSchema (0.01 .. 1)
TargetReturns == {Rat(3, 100), Rat(6, 100), Rat(12, 100), Rat(20, 100)}

OptInit ==
    /\ \E n \in 2..MaxAssets, shift \in 0..(Len(ReturnProfiles) - 1), target \in TargetReturns :
          optInput = [numAssets |-> n,
                      returns |-> [i \in 1..n |->
                                     ReturnProfiles[((i + shift) % Len(ReturnProfiles)) + 1]],
                      targetReturn |-> target]
    /\ optPc = "search"
    /\ iter = [k \in 1..(optInput.numAssets - 1) |-> 0]
    /\ bestWeights = <<>>
    /\ bestVolatility = Infinity
    /\ usedFallback = FALSE
    /\ optResult = <<>>

\* the loop counters of the next leaf call, in the order of the nested loops
RECURSIVE NextIter(_, _)
NextIter(it, k) ==
    IF it[k] < steps THEN [it EXCEPT ![k] = it[k] + 1]
    ELSE NextIter([it EXCEPT ![k] = 0], k - 1)

LastIter(it) == \A k \in DOMAIN it : it[k] = steps

\* lines 1584-1597: the innermost call holds a full allocation and evaluates
\* it; lines 1600-1604: the loops move on to the next one
OptEvaluate ==
    /\ optPc = "search"
    /\ LET n == optInput.numAssets
           weights == CandidateWeights(iter, n)
           portReturn == portfolioReturn(weights, optInput.returns, n)
           volatility == portfolioVolatility(weights, optInput.returns, n)
       IN IF MeetsTarget(portReturn, optInput.targetReturn)
             /\ Improves(volatility, bestVolatility)
          THEN /\ bestVolatility' = [finite |-> TRUE, value |-> volatility]
               /\ bestWeights' = AsNumbers(weights, n)
          ELSE UNCHANGED <<bestVolatility, bestWeights>>
    /\ IF LastIter(iter)
       THEN optPc' = "searched" /\ iter' = iter
       ELSE optPc' = "search" /\ iter' = NextIter(iter, Len(iter))
    /\ UNCHANGED <<optInput, usedFallback, optResult>>
    /\ OptFrame

\* lines 1609-1614: the equal-weight fallback and the return
OptReturn ==
    /\ optPc = "searched"
    /\ IF NeedsFallback(bestWeights, bestVolatility)
       THEN /\ bestWeights' = EqualWeights(optInput.numAssets)
            /\ usedFallback' = TRUE
       ELSE UNCHANGED <<bestWeights, usedFallback>>
    /\ optResult' = bestWeights'
    /\ optPc' = "done"
    /\ UNCHANGED <<optInput, iter, bestVolatility>>
    /\ OptFrame

OptNext == OptEvaluate \/ OptReturn

OptIdle ==
    /\ optInput = Null /\ optPc = "idle" /\ iter = <<>> /\ bestWeights = <<>>
    /\ bestVolatility = Null /\ usedFallback = FALSE /\ optResult = <<>>

\* ---- claims about the search ----

\* what the preceding weights of an allocation leave for position k
RemainingAt(weights, k, numAssets) == WeightScale(numAssets) - SumTo(weights, k - 1)

\* every allocation the nested loops enumerate
EnumeratedCandidates(numAssets) ==
    {CandidateWeights(it, numAssets) : it \in [1..(numAssets - 1) -> 0..steps]}

\* the enumerated allocations whose annualized return is >= the target
CandidatesMeetingTarget ==
    {c \in EnumeratedCandidates(optInput.numAssets) :
        RGe(portfolioReturn(c, optInput.returns, optInput.numAssets),
            optInput.targetReturn)}

\* C4 (as amended): every candidate allocation evaluated by simpleOptimization
\* has n non-negative weights that sum to 1; each weight but the last is a
\* multiple of 1/20 of what the preceding weights leave, the last weight is
\* the remainder, and for n = 2 both weights are multiples of 1/20.
C4_WeightsOnNestedGrid ==
    optPc = "search" =>
        LET n == optInput.numAssets
            w == CandidateWeights(iter, n)
        IN /\ Len(w) = n
           /\ \A k \in 1..n : w[k] >= 0
           /\ SumTo(w, n) = WeightScale(n)
           /\ \A k \in 1..(n - 1) :
                 \E i \in 0..steps : w[k] * steps = i * RemainingAt(w, k, n)
           /\ w[n] = RemainingAt(w, n, n)
           /\ (n = 2 => \A k \in 1..n : (w[k] * steps) % WeightScale(n) = 0)

\* a candidate of three assets with a weight that is no multiple of 1/20
C4_Witness ==
    /\ optPc = "search"
    /\ optInput.numAssets = 3
    /\ LET w == CandidateWeights(iter, 3)
       IN /\ w[1] > 0 /\ w[2] > 0 /\ w[3] > 0
          /\ (w[2] * steps) % WeightScale(3) # 0

\* C4 (as claimed): every candidate allocation has n non-negative weights that
\* sum to 1, each a multiple of 1/20.
C4_MultiplesOfOneTwentieth ==
    optPc = "search" =>
        LET n == optInput.numAssets
            w == CandidateWeights(iter, n)
        IN /\ Len(w) = n
           /\ \A k \in 1..n : w[k] >= 0
           /\ SumTo(w, n) = WeightScale(n)
           /\ \A k \in 1..n : (w[k] * steps) % WeightScale(n) = 0

\* C5: whenever some enumerated candidate has annualized return >= the target,
\* simpleOptimization returns a candidate that meets the target and whose
\* volatility is <= that of every enumerated candidate meeting the target.
C5_MinimumVolatility ==
    (optPc = "done" /\ CandidatesMeetingTarget # {}) =>
        \E c \in CandidatesMeetingTarget :
            /\ optResult = AsNumbers(c, optInput.numAssets)
            /\ \A o \in CandidatesMeetingTarget :
                  portfolioVolatility(c, optInput.returns, optInput.numAssets)
                    <= portfolioVolatility(o, optInput.returns, optInput.numAssets)

\* the search returned a candidate of three assets although another candidate
\* meeting the target has a larger volatility and one of them came earlier
C5_Witness ==
    /\ optPc = "done"
    /\ optInput.numAssets = 3
    /\ ~usedFallback
    /\ optResult # AsNumbers(CandidateWeights([k \in 1..2 |-> 0], 3), 3)
    /\ RGe(portfolioReturn(CandidateWeights([k \in 1..2 |-> 0], 3), optInput.returns, 3),
           optInput.targetReturn)
    /\ bestVolatility.value <
          portfolioVolatility(CandidateWeights([k \in 1..2 |-> 0], 3), optInput.returns, 3)

\* C6: if no enumerated candidate has annualized return >= the target,
\* simpleOptimization returns the equal weights 1/n (for two assets 1/2, 1/2);
\* the fallback is taken in no other case.
C6_EqualWeightFallback ==
    optPc = "done" =>
        /\ (CandidatesMeetingTarget = {} =>
              /\ usedFallback
              /\ optResult = [i \in 1..optInput.numAssets |-> Rat(1, optInput.numAssets)]
              /\ (optInput.numAssets = 2 => optResult = <<Rat(1, 2), Rat(1, 2)>>))
        /\ (usedFallback => CandidatesMeetingTarget = {})

\* two assets, no candidate meets the target, the result is 1/2, 1/2
C6_Witness ==
    /\ optPc = "done"
    /\ optInput.numAssets = 2
    /\ CandidatesMeetingTarget = {}
    /\ usedFallback
    /\ optResult = <<[n |-> 1, d |-> 2], [n |-> 1, d |-> 2]>>

-----------------------------------------------------------------------------
(* CalculatorController.calculateBreakEven and calculateCreditPayoff, the   *)
(* CalculatorService functions they call, and the errorHandler middleware   *)

\* Math.ceil as a number: NaN stays NaN
MathCeilAsFloor(a) == IF IsNaN(a) THEN NaN ELSE Num(Ceil(a) - (IF IsInteger(a) THEN 0 ELSE 1))

MathCeil(a) == IF IsNaN(a) THEN NaN ELSE Num(Ceil(a))

\* parseFloat(x.toFixed(4))
ToFixed4(a) ==
    IF IsNaN(a) THEN NaN
    ELSE LET whole == Abs(a.n) \div a.d
             frac == Abs(a.n) % a.d
             q == whole * 10000 + (20000 * frac + a.d) \div (2 * a.d)
         IN Rat(IF a.n < 0 THEN -q ELSE q, 10000)

\* ---- break-even ----

\* validator: z.number().nonnegative(), .nonnegative(), .positive()
breakEvenCalculatorSchema(body) ==
    /\ RGe(body.fixedCosts, Num(0))
    /\ RGe(body.variableCostPerUnit, Num(0))
    /\ RGt(body.sellingPricePerUnit, Num(0))

\* variant: a zero contribution margin passes
MarginNotPositiveStrict(contributionMargin) == RLt(contributionMargin, Num(0))

\* line 857: if (contributionMargin <= 0)
MarginNotPositive(contributionMargin) == RLe(contributionMargin, Num(0))

\* lines 850-886
calculateBreakEven(input) ==
    LET fixedCosts == input.fixedCosts
        variableCostPerUnit == input.variableCostPerUnit
        sellingPricePerUnit == input.sellingPricePerUnit
        contributionMargin == RSub(sellingPricePerUnit, variableCostPerUnit)
        breakEvenUnits == RDiv(fixedCosts, contributionMargin)
        breakEvenUnitsCeil == MathCeil(breakEvenUnits)
        breakEvenRevenue == RMul(breakEvenUnitsCeil, sellingPricePerUnit)
        totalVariableCosts == RMul(breakEvenUnitsCeil, variableCostPerUnit)
        totalCosts == RAdd(fixedCosts, totalVariableCosts)
    IN IF MarginNotPositive(contributionMargin)
       THEN [threw |-> TRUE,
             error |-> JsError("Selling price must be greater than variable cost per unit")]
       ELSE [threw |-> FALSE,
             value |-> [breakEvenUnits |-> breakEvenUnitsCeil,
                        breakdown |-> [contributionMarginPerUnit |-> ToFixed2(contributionMargin),
                                       breakEvenRevenue |-> ToFixed2(breakEvenRevenue),
                                       totalFixedCosts |-> ToFixed2(fixedCosts),
                                       totalVariableCosts |-> ToFixed2(totalVariableCosts),
                                       totalCosts |-> ToFixed2(totalCosts)],
                        inputs |-> input,
                        message |-> <<"You need to sell approximately ", breakEvenUnitsCeil,
                                      " units to cover your costs.">>]]

\* ---- credit payoff ----

\* the longest payoff, in months, among the requests of the model
MaxPayoffMonths == 4

\* validator: balance positive, 0 <= interestRate <= 100, monthlyPayment positive
creditPayoffCalculatorSchema(body) ==
    /\ RGt(body.balance, Num(0))
    /\ RGe(body.interestRate, Num(0)) /\ RLe(body.interestRate, Num(100))
    /\ RGt(body.monthlyPayment, Num(0))

\* variant: a payment equal to the interest passes
PaymentTooSmallStrict(monthlyPayment, minimumPayment) == RLt(monthlyPayment, minimumPayment)

\* line 1007: if (monthlyPayment <= minimumPayment)
PaymentTooSmall(monthlyPayment, minimumPayment) == RLe(monthlyPayment, minimumPayment)

\* the least m >= from with base^m >= ratio (base > 1)
RECURSIVE LeastExponent(_, _, _)
LeastExponent(base, ratio, from) ==
    IF RGe(RPowNat(base, from), ratio) THEN from
    ELSE LeastExponent(base, ratio, from + 1)

\* lines 1012-1014: Math.ceil(Math.log(ratio) / Math.log(base)) for ratio >= 1
\* and base >= 1.  log(1) is 0, so base = 1 gives x/0: NaN for ratio = 1.
\* For base > 1 the ceiling of the logarithm is the least m with
\* base^m >= ratio.
CeilLogRatio(ratio, base) ==
    IF IsNaN(ratio) \/ IsNaN(base) THEN NaN
    ELSE IF base = Num(1) THEN NaN
    ELSE Num(LeastExponent(base, ratio, 0))

\* lines 999-1035
calculateCreditPayoff(input) ==
    LET monthlyPayment == input.monthlyPayment
        rate == RDiv(RDiv(input.interestRate, Num(12)), Num(100))
        minimumPayment == RMul(input.balance, rate)
        monthsToPayoff ==
            CeilLogRatio(RDiv(monthlyPayment,
                              RSub(monthlyPayment, RMul(input.balance, rate))),
                         RAdd(Num(1), rate))
        totalPaid == RMul(monthlyPayment, monthsToPayoff)
        totalInterest == RSub(totalPaid, input.balance)
    IN IF PaymentTooSmall(monthlyPayment, minimumPayment)
       THEN [threw |-> TRUE,
             error |-> JsError("Monthly payment must be greater than the minimum interest payment to pay off the debt")]
       ELSE [threw |-> FALSE,
             value |-> [monthsToPayoff |-> monthsToPayoff,
                        totalInterest |-> ToFixed2(totalInterest),
                        breakdown |-> [originalBalance |-> ToFixed2(input.balance),
                                       monthlyPayment |-> ToFixed2(monthlyPayment),
                                       totalAmountPaid |-> ToFixed2(totalPaid),
                                       totalInterestPaid |-> ToFixed2(totalInterest),
                                       monthlyInterestRate |-> ToFixed4(RMul(rate, Num(100)))],
                        inputs |-> input,
                        message |-> <<"It will take ", monthsToPayoff,
                                      " months to pay off the debt. Total interest paid will be: $",
                                      ToFixed2(totalInterest)>>]]

\* ---- the controller and the error middleware ----

\* ApiError.badRequest(message)
ApiErrorBadRequest(message) ==
    [name |-> "ApiError", statusCode |-> 400, message |-> message]

\* error.middleware.ts line 19: new ApiError(statusCode, message, false)
ApiError(statusCode, message) ==
    [name |-> "ApiError", statusCode |-> statusCode, message |-> message]

NotCalled == [called |-> FALSE]

\* the try/catch of a controller method: schema.parse(req), the service
\* call, res.status(200).json(...), and the catch block that rethrows
CalcController(schemaOk, outcome) ==
    IF ~schemaOk
    THEN /\ calcOutcome' = NotCalled
         /\ calcThrown' = ApiErrorBadRequest("Invalid input data")
         /\ calcPc' = "threw"
         /\ calcResponse' = calcResponse
    ELSE IF outcome.threw
    THEN /\ calcOutcome' = [called |-> TRUE, threw |-> TRUE, error |-> outcome.error]
         /\ calcThrown' = ApiErrorBadRequest(outcome.error.message)
         /\ calcPc' = "threw"
         /\ calcResponse' = calcResponse
    ELSE /\ calcOutcome' = [called |-> TRUE, threw |-> FALSE, value |-> outcome.value]
         /\ calcThrown' = calcThrown
         /\ calcPc' = "responded"
         /\ calcResponse' = [status |-> 200,
                             body |-> [success |-> TRUE, data |-> outcome.value]]

BreakEvenCosts == {Num(-1), Num(0), Num(1000), Rat(2001, 2), Rat(1, 200)}
BreakEvenVariableCosts == {Num(0), Num(5), Num(15), Rat(21, 4)}
BreakEvenPrices == {Num(0), Num(5), Num(15), Rat(31, 2)}

BreakEvenRequests ==
    {[route |-> "break-even",
      body |-> [fixedCosts |-> f, variableCostPerUnit |-> v, sellingPricePerUnit |-> s]] :
        f \in BreakEvenCosts, v \in BreakEvenVariableCosts, s \in BreakEvenPrices}

CreditBalances == {Num(0), Num(1200), Num(2400)}
CreditRates == {Num(0), Num(50), Num(100), Num(101)}
CreditPayments == {Num(0), Num(50), Num(100), Num(200), Num(600), Num(1300)}

\* whether the debt of a valid request is paid off within MaxPayoffMonths
\* (requests that throw, and requests without interest, take no months)
PaysOffInTime(body) ==
    LET rate == RDiv(RDiv(body.interestRate, Num(12)), Num(100))
        interest == RMul(body.balance, rate)
    IN \/ ~creditPayoffCalculatorSchema(body)
       \/ RLe(body.monthlyPayment, interest)
       \/ rate = Num(0)
       \/ RGe(RPowNat(RAdd(Num(1), rate), MaxPayoffMonths),
              RDiv(body.monthlyPayment, RSub(body.monthlyPayment, interest)))

CreditPayoffRequests ==
    {r \in {[route |-> "credit-payoff",
             body |-> [balance |-> b, interestRate |-> i, monthlyPayment |-> p]] :
               b \in CreditBalances, i \in CreditRates, p \in CreditPayments} :
        PaysOffInTime(r.body)}

CalcInit ==
    /\ calcRequest \in BreakEvenRequests \cup CreditPayoffRequests
    /\ calcPc = "received"
    /\ calcOutcome = NotCalled
    /\ calcThrown = Null
    /\ calcResponse = Null

\* part_004 lines 56-74
BreakEvenController ==
    /\ calcPc = "received"
    /\ calcRequest.route = "break-even"
    /\ CalcController(breakEvenCalculatorSchema(calcRequest.body),
                      calculateBreakEven(calcRequest.body))
    /\ UNCHANGED calcRequest
    /\ CalcFrame

\* part_004 lines 127-145
CreditPayoffController ==
    /\ calcPc = "received"
    /\ calcRequest.route = "credit-payoff"
    /\ CalcController(creditPayoffCalculatorSchema(calcRequest.body),
                      calculateCreditPayoff(calcRequest.body))
    /\ UNCHANGED calcRequest
    /\ CalcFrame

\* error.middleware.ts lines 7-41: the error thrown by the controller reaches
\* the error-handling middleware, which answers with its status code
errorHandler ==
    /\ calcPc = "threw"
    /\ LET apiError == IF calcThrown.name = "ApiError" THEN calcThrown
                       ELSE ApiError(500, calcThrown.message)
       IN calcResponse' = [status |-> apiError.statusCode,
                           body |-> [success |-> FALSE, message |-> apiError.message]]
    /\ calcPc' = "responded"
    /\ UNCHANGED <<calcRequest, calcOutcome, calcThrown>>
    /\ CalcFrame

CalcNext == BreakEvenController \/ CreditPayoffController \/ errorHandler

CalcIdle ==
    /\ calcRequest = Null /\ calcPc = "idle" /\ calcOutcome = Null
    /\ calcThrown = Null /\ calcResponse = Null

\* ---- claims about break-even and credit payoff ----

\* a break-even request that passed validation
BreakEvenAccepted ==
    /\ calcRequest.route = "break-even"
    /\ breakEvenCalculatorSchema(calcRequest.body)

\* sellingPricePerUnit - variableCostPerUnit of the request
RequestMargin ==
    RSub(calcRequest.body.sellingPricePerUnit, calcRequest.body.variableCostPerUnit)

\* C7: for positive fixedCosts and sellingPricePerUnit > variableCostPerUnit,
\* calculateBreakEven returns breakEvenUnits = ceil(fixedCosts / (price -
\* variable cost)), the least whole number of units whose margin covers the
\* fixed costs; the reported revenue at that count is >= the reported total
\* cost; and 1000, 5, 15 gives 100 units.
C7_BreakEvenCeil ==
    (/\ calcPc = "responded"
     /\ BreakEvenAccepted
     /\ RGt(calcRequest.body.fixedCosts, Num(0))
     /\ RGt(RequestMargin, Num(0))) =>
        /\ calcOutcome.called /\ ~calcOutcome.threw
        /\ calcResponse.status = 200
        /\ LET units == calcResponse.body.data.breakEvenUnits
               breakdown == calcResponse.body.data.breakdown
           IN /\ IsInteger(units)
              /\ RGe(RMul(units, RequestMargin), calcRequest.body.fixedCosts)
              /\ RLt(RMul(RSub(units, Num(1)), RequestMargin), calcRequest.body.fixedCosts)
              /\ RGe(breakdown.breakEvenRevenue, breakdown.totalCosts)
              /\ (calcRequest.body = [fixedCosts |-> Num(1000),
                                      variableCostPerUnit |-> Num(5),
                                      sellingPricePerUnit |-> Num(15)]
                    => units = Num(100))

\* the request 1000, 5, 15 was answered with 100 units
C7_Witness ==
    /\ calcPc = "responded"
    /\ calcRequest.route = "break-even"
    /\ calcRequest.body = [fixedCosts |-> Num(1000), variableCostPerUnit |-> Num(5),
                           sellingPricePerUnit |-> Num(15)]
    /\ calcResponse.status = 200
    /\ calcResponse.body.data.breakEvenUnits = Num(100)

\* C8: whenever sellingPricePerUnit - variableCostPerUnit <= 0,
\* calculateBreakEven throws and returns no result, and the HTTP caller gets a
\* bad-request error (status 400, success false) instead of a result.
C8_BreakEvenRejected ==
    (/\ calcPc # "received"
     /\ BreakEvenAccepted
     /\ RLe(RequestMargin, Num(0))) =>
        /\ calcOutcome.called /\ calcOutcome.threw
        /\ calcOutcome.error =
              JsError("Selling price must be greater than variable cost per unit")
        /\ calcThrown = [name |-> "ApiError", statusCode |-> 400,
                         message |-> calcOutcome.error.message]
        /\ (calcPc = "responded" =>
              calcResponse = [status |-> 400,
                              body |-> [success |-> FALSE,
                                        message |-> calcOutcome.error.message]])

\* a validated request with price equal to variable cost was answered 400
C8_Witness ==
    /\ calcPc = "responded"
    /\ BreakEvenAccepted
    /\ RequestMargin = Num(0)
    /\ calcOutcome.called /\ calcOutcome.threw
    /\ calcResponse.status = 400

\* a credit-payoff request that passed validation
CreditPayoffAccepted ==
    /\ calcRequest.route = "credit-payoff"
    /\ creditPayoffCalculatorSchema(calcRequest.body)

\* C9: calculateCreditPayoff throws an Error, and returns no result, whenever
\* monthlyPayment <= balance * interestRate / 12 / 100; the caller is
\* answered without a result.
C9_CreditPayoffRejected ==
    (/\ calcPc # "received"
     /\ CreditPayoffAccepted
     /\ calcRequest.body.monthlyPayment.n * 1200 * calcRequest.body.balance.d
            * calcRequest.body.interestRate.d
          <= calcRequest.body.balance.n * calcRequest.body.interestRate.n
               * calcRequest.body.monthlyPayment.d) =>
        /\ calcOutcome.called /\ calcOutcome.threw
        /\ calcOutcome.error.name = "Error"
        /\ (calcPc = "responded" => ~calcResponse.body.success)

\* a validated request whose payment equals one month of interest threw
C9_Witness ==
    /\ calcPc = "responded"
    /\ CreditPayoffAccepted
    /\ calcRequest.body = [balance |-> Num(1200), interestRate |-> Num(100),
                           monthlyPayment |-> Num(100)]
    /\ calcOutcome.called /\ calcOutcome.threw

-----------------------------------------------------------------------------
(* CalculatorService.analyzeStock, calculateRSI, safeFloat                  *)

\* the most weekly closes a response of the model holds
MaxWeeks == 15

\* lines 1457-1460: parseFloat(value), 0 when that is NaN; a raw value is
\* [numeric, value]
safeFloat(raw) == IF raw.numeric THEN raw.value ELSE Num(0)

\* f[1] + ... + f[k] for numbers
RECURSIVE RSum(_, _)
RSum(f, k) == IF k = 0 THEN Num(0) ELSE RAdd(RSum(f, k - 1), f[k])

\* weeklyPrices.slice(0, 14)
SliceFirst14(prices) == SubSeq(prices, 1, IF Len(prices) < 14 THEN Len(prices) ELSE 14)

\* lines 1466-1473: change = prices[i] - prices[i - 1] for i = 1 .. length - 1
PriceChanges(prices) ==
    [i \in 1..(IF Len(prices) = 0 THEN 0 ELSE Len(prices) - 1) |->
        RSub(prices[i + 1], prices[i])]

\* lines 1468-1472: a change > 0 is a gain, any other change a loss of |change|
Gains(changes) ==
    [i \in DOMAIN changes |-> IF RGt(changes[i], Num(0)) THEN changes[i] ELSE Num(0)]

Losses(changes) ==
    [i \in DOMAIN changes |-> IF RGt(changes[i], Num(0)) THEN Num(0) ELSE RNeg(changes[i])]

\* lines 1475-1478: avgGain and avgLoss are the sums over 14; rs = avgGain /
\* avgLoss is Infinity when only avgLoss is 0 (100 / (1 + Infinity) = 0) and
\* NaN when both are 0
RsiOfChanges(changes) ==
    LET avgGain == RDiv(RSum(Gains(changes), Len(changes)), Num(14))
        avgLoss == RDiv(RSum(Losses(changes), Len(changes)), Num(14))
    IN IF avgLoss = Num(0)
       THEN (IF avgGain = Num(0) THEN NaN ELSE Num(100))
       ELSE RSub(Num(100), RDiv(Num(100), RAdd(Num(1), RDiv(avgGain, avgLoss))))

\* lines 1462-1479
calculateRSI(prices) == RsiOfChanges(PriceChanges(prices))

\* variant: an RSI of exactly 70 is not yet Bullish
IsBullishStrict(r) == RGt(r, Num(70))

\* line 1546: rsi >= 70
IsBullish(r) == RGe(r, Num(70))

\* lines 1543-1552
TrendOf(r) ==
    IF RLe(r, Num(30)) THEN "Bearish"
    ELSE IF IsBullish(r) THEN "Bullish"
    ELSE IF RLt(r, Num(50)) THEN "Downtrend"
    ELSE "Uptrend"

\* variant: Sell only when both ratios are high
ShortTermSellBoth(pe, pb) == RGt(pe, Num(25)) /\ RGt(pb, Num(3))

\* line 1529: peRatio > 25 || pbRatio > 3.0
ShortTermSell(pe, pb) == RGt(pe, Num(25)) \/ RGt(pb, Num(3))

\* lines 1516-1539
RecommendationOf(term, intrinsic, current, pe, pb) ==
    IF term = "Long Term"
    THEN (IF RGt(intrinsic, current) THEN "Strong Buy" ELSE "Sell")
    ELSE IF RLt(pe, Num(15)) /\ RLt(pb, Rat(3, 2)) THEN "Buy"
    ELSE IF ShortTermSell(pe, pb) THEN "Sell"
    ELSE "Hold"

AxiosError(message) == [name |-> "AxiosError", message |-> message]

\* what reading a property of undefined throws
TypeError(message) == [name |-> "TypeError", message |-> message]

Raw(k) == [numeric |-> TRUE, value |-> k]
NotNumeric == [numeric |-> FALSE, value |-> Num(0)]

\* responses of the OVERVIEW request: [kind, hasName, PERatio, PriceToBookRatio]
OverviewAnswers ==
    {[kind |-> "resolved", hasName |-> TRUE, PERatio |-> Raw(pe), PriceToBookRatio |-> Raw(pb)] :
        pe \in {Num(10), Num(15), Num(25), Num(30)},
        pb \in {Num(1), Rat(3, 2), Num(3), Num(4)}}
    \cup {[kind |-> "resolved", hasName |-> FALSE, PERatio |-> NotNumeric,
           PriceToBookRatio |-> NotNumeric],
          [kind |-> "rejected", reason |-> AxiosError("Request failed with status code 503")]}

\* the first two changes of a series; all later changes but the 14th are 0
FirstChanges ==
    {<<7, -3>>, <<3, -7>>, <<5, -5>>, <<0, 0>>, <<4, 0>>, <<0, -4>>, <<6, -4>>, <<4, -6>>}

\* the 14th change of a series (between the 14th and the 15th close)
FourteenthChanges == {0, -10}

WeeklySeries(len, first, fourteenth) ==
    [k \in 1..len |->
        Num(100 + (IF k >= 2 THEN first[1] ELSE 0) + (IF k >= 3 THEN first[2] ELSE 0)
                + (IF k >= 15 THEN fourteenth ELSE 0))]

\* responses of the TIME_SERIES_WEEKLY_ADJUSTED request
WeeklyAnswers ==
    {[kind |-> "resolved", hasSeries |-> TRUE, closes |-> WeeklySeries(len, f, c)] :
        len \in {1, 2, 3, 14, MaxWeeks}, f \in FirstChanges, c \in FourteenthChanges}
    \cup {[kind |-> "resolved", hasSeries |-> FALSE, closes |-> <<>>],
          [kind |-> "rejected", reason |-> AxiosError("timeout of 0ms exceeded")]}

\* responses of the GLOBAL_QUOTE request
QuoteAnswers ==
    {[kind |-> "resolved", hasQuote |-> TRUE, price |-> Raw(Num(p))] : p \in {90, 100, 110}}
    \cup {[kind |-> "resolved", hasQuote |-> TRUE, price |-> NotNumeric],
          [kind |-> "resolved", hasQuote |-> FALSE, price |-> NotNumeric],
          [kind |-> "rejected", reason |-> AxiosError("Network Error")]}

AnInit ==
    /\ anInput \in {[symbol |-> "IBM", term |-> t] : t \in {"Short Term", "Long Term"}}
    /\ anPc = "overview"
    /\ anCalls = 0
    /\ companyName = Null /\ peRatio = Null /\ pbRatio = Null
    /\ weeklyPrices = <<>> /\ intrinsicValue = Null /\ currentPrice = Null
    /\ rsiChanges = <<>> /\ rsi = Null
    /\ anCause = Null /\ anThrown = Null /\ anResult = Null

\* variant: a catch block that rethrows whatever it caught
AnCatchRethrows(error) ==
    /\ anCause' = error
    /\ anThrown' = error
    /\ anPc' = "thrown"

\* lines 1564-1569: the catch block
AnCatch(error) ==
    /\ anCause' = error
    /\ anThrown' = IF error.name = "AxiosError"
                   THEN JsError("Failed to fetch stock data. Please check the symbol or try again later.")
                   ELSE error
    /\ anPc' = "thrown"

\* lines 1486-1494: the company overview
AnOverview(answer) ==
    /\ anPc = "overview"
    /\ anCalls' = anCalls + 1
    /\ IF answer.kind = "rejected"
       THEN /\ AnCatch(answer.reason)
            /\ UNCHANGED <<companyName, peRatio, pbRatio>>
       ELSE /\ companyName' = IF answer.hasName THEN "Name" ELSE "N/A"
            /\ peRatio' = safeFloat(answer.PERatio)
            /\ pbRatio' = safeFloat(answer.PriceToBookRatio)
            /\ anPc' = "weekly"
            /\ UNCHANGED <<anCause, anThrown>>
    /\ UNCHANGED <<anInput, weeklyPrices, intrinsicValue, currentPrice, rsiChanges,
                   rsi, anResult>>
    /\ AnFrame

\* lines 1496-1508: the weekly closes and their mean
AnWeekly(answer) ==
    /\ anPc = "weekly"
    /\ anCalls' = anCalls + 1
    /\ IF answer.kind = "rejected"
       THEN /\ AnCatch(answer.reason)
            /\ UNCHANGED <<weeklyPrices, intrinsicValue>>
       ELSE IF ~answer.hasSeries
       THEN /\ AnCatch(JsError("Unable to fetch stock data. Invalid symbol or API limit reached."))
            /\ UNCHANGED <<weeklyPrices, intrinsicValue>>
       ELSE /\ weeklyPrices' = answer.closes
            /\ intrinsicValue' = RDiv(RSum(answer.closes, Len(answer.closes)),
                                      Num(Len(answer.closes)))
            /\ anPc' = "quote"
            /\ UNCHANGED <<anCause, anThrown>>
    /\ UNCHANGED <<anInput, companyName, peRatio, pbRatio, currentPrice, rsiChanges,
                   rsi, anResult>>
    /\ AnFrame

\* lines 1510-1563: the current price, the recommendation, the RSI, the trend
\* and the return
AnQuote(answer) ==
    /\ anPc = "quote"
    /\ anCalls' = anCalls + 1
    /\ IF answer.kind = "rejected"
       THEN /\ AnCatch(answer.reason)
            /\ UNCHANGED <<currentPrice, rsiChanges, rsi, anResult>>
       ELSE IF ~answer.hasQuote
       THEN /\ AnCatch(TypeError("Cannot read properties of undefined (reading '05. price')"))
            /\ UNCHANGED <<currentPrice, rsiChanges, rsi, anResult>>
       ELSE /\ currentPrice' = safeFloat(answer.price)
            /\ rsiChanges' = PriceChanges(SliceFirst14(weeklyPrices))
            /\ rsi' = calculateRSI(SliceFirst14(weeklyPrices))
            /\ anResult' = [companyName |-> companyName,
                            symbol |-> anInput.symbol,
                            intrinsicStockValue |-> <<"$", ToFixed2(intrinsicValue)>>,
                            currentStockPrice |-> <<"$", ToFixed2(currentPrice')>>,
                            stockTrend |-> TrendOf(rsi'),
                            valuationStatus |->
                               RecommendationOf(anInput.term, intrinsicValue,
                                                currentPrice', peRatio, pbRatio),
                            explanation |->
                               <<"The stock is ... for the ", anInput.term>>,
                            disclaimer |-> "This analysis is for educational purposes only ..."]
            /\ anPc' = "returned"
            /\ UNCHANGED <<anCause, anThrown>>
    /\ UNCHANGED <<anInput, companyName, peRatio, pbRatio, weeklyPrices, intrinsicValue>>
    /\ AnFrame

AnNext ==
    \/ \E answer \in OverviewAnswers : AnOverview(answer)
    \/ \E answer \in WeeklyAnswers : AnWeekly(answer)
    \/ \E answer \in QuoteAnswers : AnQuote(answer)

AnIdle ==
    /\ anInput = Null /\ anPc = "idle" /\ anCalls = 0
    /\ companyName = Null /\ peRatio = Null /\ pbRatio = Null
    /\ weeklyPrices = <<>> /\ intrinsicValue = Null /\ currentPrice = Null
    /\ rsiChanges = <<>> /\ rsi = Null
    /\ anCause = Null /\ anThrown = Null /\ anResult = Null

\* ---- claims about the stock analysis ----

\* the changes between the first k + 1 closes of the response
FirstChangesOf(prices, k) == PriceChanges(SubSeq(prices, 1, k + 1))

\* C11: analyzeStock computes its RSI from exactly 14 price changes taken from
\* the most recent weekly closes: average gain and average loss are the sums
\* of the gains and of the losses among those 14 changes over 14, and
\* RSI = 100 - 100 / (1 + avgGain / avgLoss).
C11_FourteenChanges ==
    (anPc = "returned" /\ Len(weeklyPrices) >= 15) =>
        /\ Len(rsiChanges) = 14
        /\ rsi = RsiOfChanges(FirstChangesOf(weeklyPrices, 14))

\* C12: the trend label is a function of the RSI alone and every RSI gets
\* exactly one of the four labels: Bearish when RSI <= 30, Bullish when
\* RSI >= 70, Downtrend strictly between 30 and 50, Uptrend strictly between
\* 50 and 70, and one of the two at 50.
C12_TrendLabel ==
    anPc = "returned" =>
        LET label == anResult.stockTrend
        IN /\ label \in {"Bearish", "Downtrend", "Uptrend", "Bullish"}
           /\ (RLe(rsi, Num(30)) => label = "Bearish")
           /\ (RGe(rsi, Num(70)) => label = "Bullish")
           /\ (RGt(rsi, Num(30)) /\ RLt(rsi, Num(50)) => label = "Downtrend")
           /\ (RGt(rsi, Num(50)) /\ RLt(rsi, Num(70)) => label = "Uptrend")
           /\ (rsi = Num(50) => label \in {"Downtrend", "Uptrend"})

\* an RSI of exactly 70 was labelled Bullish
C12_Witness ==
    /\ anPc = "returned"
    /\ rsi = Num(70)
    /\ anResult.stockTrend = "Bullish"

\* C13: for 'Long Term' the recommendation is Strong Buy when the mean of the
\* weekly closes exceeds the current price and Sell otherwise, whatever P/E
\* and P/B are; for 'Short Term' it is Buy when P/E < 15 and P/B < 1.5, Sell
\* when P/E > 25 or P/B > 3.0 and Hold otherwise, whatever the prices are.
C13_Recommendation ==
    anPc = "returned" =>
        LET r == anResult.valuationStatus
            mean == RDiv(RSum(weeklyPrices, Len(weeklyPrices)), Num(Len(weeklyPrices)))
        IN IF anInput.term = "Long Term"
           THEN r = (IF RGt(mean, currentPrice) THEN "Strong Buy" ELSE "Sell")
           ELSE /\ (RLt(peRatio, Num(15)) /\ RLt(pbRatio, Rat(3, 2)) => r = "Buy")
                /\ (RGt(peRatio, Num(25)) \/ RGt(pbRatio, Num(3)) => r = "Sell")
                /\ (~(RLt(peRatio, Num(15)) /\ RLt(pbRatio, Rat(3, 2)))
                    /\ ~(RGt(peRatio, Num(25)) \/ RGt(pbRatio, Num(3))) => r = "Hold")

\* a short-term analysis sold on P/B alone although the mean of the closes is
\* above the current price
C13_Witness ==
    /\ anPc = "returned"
    /\ anInput.term = "Short Term"
    /\ RLt(peRatio, Num(15)) /\ RGt(pbRatio, Num(3))
    /\ RGt(intrinsicValue, currentPrice)
    /\ anResult.valuationStatus = "Sell"

-----------------------------------------------------------------------------
(* CalculatorService: the calculator functions, one call at a time          *)

\* the largest exponent of a compounding power among the calls of the model
MaxCompoundings == 4

\* variant: a calculator that issues a request before it returns
SvcReturnsAfterRequest(name, result) ==
    /\ svcPc = "called"
    /\ svcCall.name = name
    /\ svcResult' = result
    /\ svcPc' = "returned"
    /\ svcRequests' = svcRequests + 1
    /\ UNCHANGED <<svcCall, svcThrown>>
    /\ SvcFrame

\* a call that runs to its return statement without awaiting anything
SvcReturns(name, result) ==
    /\ svcPc = "called"
    /\ svcCall.name = name
    /\ svcResult' = result
    /\ svcPc' = "returned"
    /\ UNCHANGED <<svcCall, svcRequests, svcThrown>>
    /\ SvcFrame

\* a call that runs without awaiting anything and returns or throws
SvcSettles(name, outcome) ==
    /\ svcPc = "called"
    /\ svcCall.name = name
    /\ IF outcome.threw
       THEN svcThrown' = outcome.error /\ svcPc' = "thrown" /\ svcResult' = svcResult
       ELSE svcResult' = outcome.value /\ svcPc' = "returned" /\ svcThrown' = svcThrown
    /\ UNCHANGED <<svcCall, svcRequests>>
    /\ SvcFrame

\* ---- calculateBondPrice, lines 763-796 ----

bondPriceCalculatorSchema(body) ==
    /\ RGt(body.couponPayment, Num(0))
    /\ RGe(body.yieldRate, Num(0)) /\ RLe(body.yieldRate, Num(100))
    /\ IsInteger(body.yearsToMaturity) /\ RGt(body.yearsToMaturity, Num(0))
    /\ RGt(body.faceValue, Num(0))

\* variant: the loop stops one year early
BondCouponYearsShort(yearsToMaturity) == 1..(yearsToMaturity.n - 1)

\* line 771: for (let t = 1; t <= yearsToMaturity; t++)
BondCouponYears(yearsToMaturity) == 1..yearsToMaturity.n

\* the sum of f[t] over the whole numbers t of a set, in increasing order
RECURSIVE RSumOver(_, _)
RSumOver(f, ts) ==
    IF ts = {} THEN Num(0)
    ELSE LET last == CHOOSE t \in ts : \A u \in ts : u <= t
         IN RAdd(RSumOver(f, ts \ {last}), f[last])

calculateBondPrice(input) ==
    LET yieldRateDecimal == RDiv(input.yieldRate, Num(100))
        years == BondCouponYears(input.yearsToMaturity)
        presentValueCoupons ==
            RSumOver([t \in years |->
                         RDiv(input.couponPayment,
                              RPow(RAdd(Num(1), yieldRateDecimal), Num(t)))],
                     years)
        presentValueFaceValue ==
            RDiv(input.faceValue,
                 RPow(RAdd(Num(1), yieldRateDecimal), input.yearsToMaturity))
        bondPrice == RAdd(presentValueCoupons, presentValueFaceValue)
    IN [bondPrice |-> ToFixed2(bondPrice),
        breakdown |-> [presentValueOfCoupons |-> ToFixed2(presentValueCoupons),
                       presentValueOfFaceValue |-> ToFixed2(presentValueFaceValue),
                       totalBondPrice |-> ToFixed2(bondPrice)],
        inputs |-> [couponPayment |-> input.couponPayment,
                    yieldRate |-> input.yieldRate,
                    yearsToMaturity |-> input.yearsToMaturity,
                    faceValue |-> input.faceValue],
        message |-> <<"The bond's price today, based on the present value of its future payments, is $",
                      ToFixed2(bondPrice), ".">>]

BondPriceCalls ==
    {[name |-> "calculateBondPrice",
      input |-> [couponPayment |-> c, yieldRate |-> y, yearsToMaturity |-> Num(n),
                 faceValue |-> f]] :
        c \in {Num(50), Rat(1, 200)}, y \in {Num(0), Num(50), Num(100)},
        n \in 1..(MaxCompoundings - 1), f \in {Num(1000), Rat(201, 2)}}

BondPrice == SvcReturns("calculateBondPrice", calculateBondPrice(svcCall.input))

\* ---- calculateRetirement, lines 1357-1397 ----

retirementCalculatorSchema(body) ==
    /\ IsInteger(body.currentAge)
    /\ RGe(body.currentAge, Num(18)) /\ RLe(body.currentAge, Num(100))
    /\ IsInteger(body.retirementAge)
    /\ RGe(body.retirementAge, Num(18)) /\ RLe(body.retirementAge, Num(100))
    /\ RGe(body.currentSavings, Num(0))
    /\ RGe(body.annualContributions, Num(0))
    /\ RGe(body.expectedRateOfReturn, Num(-50))
    /\ RLe(body.expectedRateOfReturn, Num(100))
    /\ RGt(body.retirementAge, body.currentAge)

\* variant: the annuity formula is used for every rate
RateIsZeroNever(rate) == rate # rate

\* line 1368: if (rate === 0)
RateIsZero(rate) == rate = Num(0)

calculateRetirement(input) ==
    LET yearsToRetirement == RSub(input.retirementAge, input.currentAge)
        rate == RDiv(input.expectedRateOfReturn, Num(100))
        futureValueContributions ==
            IF RateIsZero(rate)
            THEN RMul(input.annualContributions, yearsToRetirement)
            ELSE RMul(input.annualContributions,
                      RDiv(RSub(RPow(RAdd(Num(1), rate), yearsToRetirement), Num(1)),
                           rate))
        futureValueSavings ==
            RMul(input.currentSavings, RPow(RAdd(Num(1), rate), yearsToRetirement))
        totalFutureValue == RAdd(futureValueContributions, futureValueSavings)
    IN [futureValue |-> ToFixed2(totalFutureValue),
        breakdown |-> [yearsToRetirement |-> yearsToRetirement,
                       futureValueOfContributions |-> ToFixed2(futureValueContributions),
                       futureValueOfCurrentSavings |-> ToFixed2(futureValueSavings),
                       totalFutureValue |-> ToFixed2(totalFutureValue)],
        inputs |-> [currentAge |-> input.currentAge,
                    retirementAge |-> input.retirementAge,
                    currentSavings |-> input.currentSavings,
                    annualContributions |-> input.annualContributions,
                    expectedRateOfReturn |-> input.expectedRateOfReturn],
        message |-> <<"Estimated Savings at Retirement: $", ToFixed2(totalFutureValue)>>]

RetirementCalls ==
    {[name |-> "calculateRetirement",
      input |-> [currentAge |-> Num(30), retirementAge |-> Num(30 + y),
                 currentSavings |-> s, annualContributions |-> a,
                 expectedRateOfReturn |-> r]] :
        y \in 1..(MaxCompoundings - 1), s \in {Num(0), Num(1000), Rat(2001, 2)},
        a \in {Num(0), Num(500)}, r \in {Num(0), Num(10), Num(-50), Num(100)}}

Retirement == SvcReturns("calculateRetirement", calculateRetirement(svcCall.input))

\* ---- calculateModifiedDuration, lines 1231-1280 ----

modifiedDurationCalculatorSchema(body) ==
    /\ RGt(body.bondPrice, Num(0))
    /\ RGt(body.faceValue, Num(0))
    /\ RGe(body.couponRate, Num(0)) /\ RLe(body.couponRate, Num(100))
    /\ RGe(body.yieldRate, Num(-10)) /\ RLe(body.yieldRate, Num(100))
    /\ body.periodsPerYear \in {Num(1), Num(2), Num(4)}

\* variant: the yield is not divided by the periods per year
PeriodYieldFactorAnnual(yieldRateDecimal, periodsPerYear) ==
    RAdd(Num(1), yieldRateDecimal)

\* line 1259: 1 + yieldRateDecimal / periodsPerYear
PeriodYieldFactor(yieldRateDecimal, periodsPerYear) ==
    RAdd(Num(1), RDiv(yieldRateDecimal, periodsPerYear))

\* lines 1234-1259: the consts macaulayDurationValue and modifiedDurationValue
ModifiedDurationValues(input) ==
    LET couponRateDecimal == RDiv(input.couponRate, Num(100))
        yieldRateDecimal == RDiv(input.yieldRate, Num(100))
        periodsPerYear == input.periodsPerYear
        periods == 1..periodsPerYear.n
        couponPayment == RDiv(RMul(couponRateDecimal, input.faceValue), periodsPerYear)
        presentValueOfCoupon ==
            [t \in periods |->
                RDiv(couponPayment,
                     RPow(RAdd(Num(1), RDiv(yieldRateDecimal, periodsPerYear)), Num(t)))]
        presentValueOfFaceValue ==
            RDiv(input.faceValue,
                 RPow(RAdd(Num(1), RDiv(yieldRateDecimal, periodsPerYear)), periodsPerYear))
        macaulayDuration ==
            RAdd(RSumOver([t \in periods |-> RMul(Num(t), presentValueOfCoupon[t])], periods),
                 RMul(periodsPerYear, presentValueOfFaceValue))
        totalPresentValue ==
            RAdd(RSumOver(presentValueOfCoupon, periods), presentValueOfFaceValue)
        macaulayDurationValue == RDiv(macaulayDuration, totalPresentValue)
    IN [macaulayDurationValue |-> macaulayDurationValue,
        modifiedDurationValue |->
            RDiv(macaulayDurationValue, PeriodYieldFactor(yieldRateDecimal, periodsPerYear))]

\* lines 1261-1279
calculateModifiedDuration(input) ==
    LET values == ModifiedDurationValues(input)
    IN [modifiedDuration |-> ToFixed2(values.modifiedDurationValue),
        breakdown |-> [macaulayDuration |-> ToFixed2(values.macaulayDurationValue),
                       bondPrice |-> ToFixed2(input.bondPrice),
                       faceValue |-> ToFixed2(input.faceValue),
                       periodsPerYear |-> input.periodsPerYear],
        inputs |-> [bondPrice |-> input.bondPrice,
                    faceValue |-> input.faceValue,
                    couponRate |-> input.couponRate,
                    yieldRate |-> input.yieldRate,
                    periodsPerYear |-> input.periodsPerYear],
        message |-> <<"Modified Duration: ", ToFixed2(values.modifiedDurationValue),
                      ". For every 1% change in interest rates, the bond's price will change by approximately ",
                      ToFixed2(values.modifiedDurationValue), "%.">>]

ModifiedDurationCalls ==
    {[name |-> "calculateModifiedDuration",
      input |-> [bondPrice |-> Num(950), faceValue |-> f, couponRate |-> c,
                 yieldRate |-> y, periodsPerYear |-> Num(p)]] :
        f \in {Num(1), Num(100)}, c \in {Num(0), Num(8), Num(100)},
        y \in {Num(-10), Num(0), Num(50), Num(100)}, p \in {1, 2, 4}}

ModifiedDuration ==
    SvcReturns("calculateModifiedDuration", calculateModifiedDuration(svcCall.input))

\* ---- calculateCD (lines 927-967), calculateCompoundInterest (969-997) ----

cdCalculatorSchema(body) ==
    /\ RGt(body.principal, Num(0))
    /\ RGe(body.annualInterestRate, Num(0)) /\ RLe(body.annualInterestRate, Num(100))
    /\ RGt(body.timePeriod, Num(0))
    /\ body.compoundingFrequency \in
          {"annually", "semiannually", "quarterly", "monthly", "daily"}

compoundInterestCalculatorSchema(body) ==
    /\ RGt(body.principal, Num(0))
    /\ RGe(body.interestRate, Num(0)) /\ RLe(body.interestRate, Num(100))
    /\ IsInteger(body.compoundingFrequency) /\ RGt(body.compoundingFrequency, Num(0))
    /\ RGt(body.timePeriod, Num(0))

\* lines 934-940
frequencyMap ==
    [daily |-> Num(365), monthly |-> Num(12), quarterly |-> Num(4),
     semiannually |-> Num(2), annually |-> Num(1)]

\* variant: the growth is applied as a discount
CompoundGrowthInverse(r, n, periods) ==
    RDiv(Num(1), RPow(RAdd(Num(1), RDiv(r, n)), periods))

\* lines 945, 976: Math.pow(1 + r / n, periods)
CompoundGrowth(r, n, periods) == RPow(RAdd(Num(1), RDiv(r, n)), periods)

calculateCD(input) ==
    LET r == RDiv(input.annualInterestRate, Num(100))
        n == frequencyMap[input.compoundingFrequency]
        futureValue == RMul(input.principal, CompoundGrowth(r, n, RMul(n, input.timePeriod)))
        totalInterest == RSub(futureValue, input.principal)
    IN [futureValue |-> ToFixed2(futureValue),
        breakdown |-> [principalAmount |-> ToFixed2(input.principal),
                       totalInterestEarned |-> ToFixed2(totalInterest),
                       effectiveRate |->
                          ToFixed2(RMul(RSub(RPow(RAdd(Num(1), RDiv(r, n)), n), Num(1)),
                                        Num(100))),
                       compoundingPeriodsPerYear |-> n,
                       totalCompoundingPeriods |-> RMul(n, input.timePeriod)],
        inputs |-> [principal |-> input.principal,
                    annualInterestRate |-> input.annualInterestRate,
                    timePeriod |-> input.timePeriod,
                    compoundingFrequency |-> input.compoundingFrequency],
        message |-> <<"Future Value of CD: $", ToFixed2(futureValue)>>]

calculateCompoundInterest(input) ==
    LET rate == RDiv(input.interestRate, Num(100))
        compoundingFrequency == input.compoundingFrequency
        futureValue ==
            RMul(input.principal,
                 CompoundGrowth(rate, compoundingFrequency,
                                RMul(compoundingFrequency, input.timePeriod)))
        totalInterest == RSub(futureValue, input.principal)
    IN [futureValue |-> ToFixed2(futureValue),
        breakdown |-> [principalAmount |-> ToFixed2(input.principal),
                       totalInterestEarned |-> ToFixed2(totalInterest),
                       effectiveAnnualRate |->
                          ToFixed2(RMul(RSub(RPow(RAdd(Num(1),
                                                       RDiv(rate, compoundingFrequency)),
                                                  compoundingFrequency), Num(1)),
                                        Num(100))),
                       totalCompoundingPeriods |-> RMul(compoundingFrequency, input.timePeriod)],
        inputs |-> [principal |-> input.principal,
                    interestRate |-> input.interestRate,
                    compoundingFrequency |-> input.compoundingFrequency,
                    timePeriod |-> input.timePeriod],
        message |-> <<"Future Value: $", ToFixed2(futureValue)>>]

\* the powers of a call are whole powers of at most MaxCompoundings, or
\* powers of 1
WholePowers(rate, n, timePeriod) ==
    \/ rate = Num(0)
    \/ /\ IsInteger(RMul(n, timePeriod))
       /\ RLe(RMul(n, timePeriod), Num(MaxCompoundings))
       /\ RLe(n, Num(MaxCompoundings))

CompoundPrincipals == {Num(1000), Rat(1, 2)}
CompoundRates == {Num(0), Num(20), Num(100)}
CompoundTimePeriods == {Rat(k, 2) : k \in 1..(2 * MaxCompoundings)}

CDCalls ==
    {c \in {[name |-> "calculateCD",
             input |-> [principal |-> p, annualInterestRate |-> r, timePeriod |-> t,
                        compoundingFrequency |-> f]] :
               p \in CompoundPrincipals, r \in CompoundRates, t \in CompoundTimePeriods,
               f \in DOMAIN frequencyMap} :
        WholePowers(c.input.annualInterestRate, frequencyMap[c.input.compoundingFrequency],
                    c.input.timePeriod)}

CompoundInterestCalls ==
    {c \in {[name |-> "calculateCompoundInterest",
             input |-> [principal |-> p, interestRate |-> r, compoundingFrequency |-> Num(f),
                        timePeriod |-> t]] :
               p \in CompoundPrincipals, r \in CompoundRates, t \in CompoundTimePeriods,
               f \in {1, 2, 4, 12}} :
        WholePowers(c.input.interestRate, c.input.compoundingFrequency, c.input.timePeriod)}

CD == SvcReturns("calculateCD", calculateCD(svcCall.input))

CompoundInterest ==
    SvcReturns("calculateCompoundInterest", calculateCompoundInterest(svcCall.input))

\* ---- calculateBondYTM, lines 809-842 ----

calculateBondYTM(input) ==
    LET couponRateDecimal == RDiv(input.couponRate, Num(100))
        couponPayment == RMul(couponRateDecimal, input.faceValue)
        capitalGain == RDiv(RSub(input.faceValue, input.bondPrice), input.periodsToMaturity)
        averagePrice == RDiv(RAdd(input.bondPrice, input.faceValue), Num(2))
        annualYield == RDiv(RAdd(couponPayment, capitalGain), averagePrice)
        ytmPercentage == RMul(annualYield, Num(100))
    IN [ytm |-> ToFixed2(ytmPercentage),
        breakdown |-> [couponPayment |-> ToFixed2(couponPayment),
                       capitalGainPerPeriod |-> ToFixed2(capitalGain),
                       averagePrice |-> ToFixed2(averagePrice),
                       ytmPercentage |-> ToFixed2(ytmPercentage)],
        inputs |-> [bondPrice |-> input.bondPrice,
                    faceValue |-> input.faceValue,
                    couponRate |-> input.couponRate,
                    periodsToMaturity |-> input.periodsToMaturity],
        message |-> <<"The YTM represents the annualized return you can expect to earn if you hold the bond to maturity. In this case, it is ",
                      ToFixed2(ytmPercentage), "%.">>]

BondYTMCalls ==
    {[name |-> "calculateBondYTM",
      input |-> [bondPrice |-> b, faceValue |-> Num(1000), couponRate |-> c,
                 periodsToMaturity |-> Num(n)]] :
        b \in {Num(950), Num(1000)}, c \in {Num(0), Num(5)}, n \in {1, 10}}

BondYTM == SvcReturns("calculateBondYTM", calculateBondYTM(svcCall.input))

\* ---- calculateBreakEven, calculateCreditPayoff ----

BreakEvenCalls ==
    {[name |-> "calculateBreakEven", input |-> r.body] :
        r \in {q \in BreakEvenRequests : breakEvenCalculatorSchema(q.body)}}

CreditPayoffCalls ==
    {[name |-> "calculateCreditPayoff", input |-> r.body] :
        r \in {q \in CreditPayoffRequests : creditPayoffCalculatorSchema(q.body)}}

BreakEven == SvcSettles("calculateBreakEven", calculateBreakEven(svcCall.input))

CreditPayoff == SvcSettles("calculateCreditPayoff", calculateCreditPayoff(svcCall.input))

\* ---- calculateBudget, lines 889-925 ----

\* lines 893, 902-908: the amounts of the expenses for which keep holds, summed
RECURSIVE SumAmounts(_, _, _)
SumAmounts(expenses, k, category) ==
    IF k = 0 THEN Num(0)
    ELSE IF category = "" \/ expenses[k].category = category
    THEN RAdd(SumAmounts(expenses, k - 1, category), expenses[k].amount)
    ELSE SumAmounts(expenses, k - 1, category)

calculateBudget(input) ==
    LET expenses == input.expenses
        totalExpenses == SumAmounts(expenses, Len(expenses), "")
        remainingBudget == RSub(input.income, totalExpenses)
        percentageSpent == RMul(RDiv(totalExpenses, input.income), Num(100))
        expensesByCategory ==
            [c \in {expenses[k].category : k \in DOMAIN expenses} |->
                SumAmounts(expenses, Len(expenses), c)]
    IN [remainingBudget |-> ToFixed2(remainingBudget),
        breakdown |-> [totalIncome |-> ToFixed2(input.income),
                       totalExpenses |-> ToFixed2(totalExpenses),
                       percentageSpent |-> ToFixed2(percentageSpent),
                       percentageRemaining |-> ToFixed2(RSub(Num(100), percentageSpent)),
                       expensesByCategory |-> expensesByCategory],
        inputs |-> [income |-> input.income, expenses |-> input.expenses],
        message |-> <<"Remaining Budget: $", ToFixed2(remainingBudget)>>]

BudgetCalls ==
    {[name |-> "calculateBudget", input |-> [income |-> i, expenses |-> e]] :
        i \in {Num(3000), Rat(5001, 2)},
        e \in {<<>>,
               <<[category |-> "rent", amount |-> Num(1200)]>>,
               <<[category |-> "food", amount |-> Num(400)],
                 [category |-> "rent", amount |-> Num(3000)],
                 [category |-> "food", amount |-> Rat(251, 2)]>>}}

Budget == SvcReturns("calculateBudget", calculateBudget(svcCall.input))

\* ---- convertCurrency, lines 1037-1081 ----

\* the first k decimal digits of rest / d as a whole number, the last one rounded
RECURSIVE DecimalDigits(_, _, _)
DecimalDigits(rest, d, k) ==
    IF k = 0 THEN (IF 2 * rest >= d THEN 1 ELSE 0)
    ELSE ((10 * rest) \div d) * (10 ^ (k - 1)) + DecimalDigits((10 * rest) % d, d, k - 1)

\* parseFloat(x.toFixed(6))
ToFixed6(a) ==
    IF IsNaN(a) THEN NaN
    ELSE LET q == (Abs(a.n) \div a.d) * 1000000 + DecimalDigits(Abs(a.n) % a.d, a.d, 6)
         IN Rat(IF a.n < 0 THEN -q ELSE q, 1000000)

\* responses of the CURRENCY_EXCHANGE_RATE request
ExchangeAnswers ==
    {[kind |-> "resolved", errorMessage |-> FALSE, hasRate |-> TRUE, rate |-> Raw(r),
      reason |-> Null] : r \in {Rat(9, 10), Rat(1250001, 2500000)}}
    \cup {[kind |-> "resolved", errorMessage |-> FALSE, hasRate |-> TRUE,
           rate |-> NotNumeric, reason |-> Null],
          [kind |-> "resolved", errorMessage |-> TRUE, hasRate |-> FALSE,
           rate |-> NotNumeric, reason |-> Null],
          [kind |-> "resolved", errorMessage |-> FALSE, hasRate |-> FALSE,
           rate |-> NotNumeric, reason |-> Null],
          [kind |-> "rejected", errorMessage |-> FALSE, hasRate |-> FALSE,
           rate |-> NotNumeric, reason |-> AxiosError("Network Error")]}

\* parseFloat of a raw value: NaN when it is not numeric
parseFloat(raw) == IF raw.numeric THEN raw.value ELSE NaN

\* lines 1046-1081: what the call does once the request has settled
convertCurrency(input, answer) ==
    IF answer.kind = "rejected"
    THEN [threw |-> TRUE,
          error |-> IF answer.reason.name = "AxiosError"
                    THEN JsError("Failed to fetch exchange rates. Please try again later.")
                    ELSE answer.reason]
    ELSE IF answer.errorMessage
    THEN [threw |-> TRUE, error |-> JsError("Error fetching exchange rates from API")]
    ELSE IF ~answer.hasRate
    THEN [threw |-> TRUE, error |-> JsError("Invalid currency pair or API response")]
    ELSE LET exchangeRate == parseFloat(answer.rate)
             convertedAmount == RMul(input.amount, exchangeRate)
         IN [threw |-> FALSE,
             value |-> [convertedAmount |-> ToFixed2(convertedAmount),
                        exchangeRate |-> ToFixed6(exchangeRate),
                        breakdown |-> [originalAmount |-> ToFixed2(input.amount),
                                       fromCurrency |-> input.fromCurrency,
                                       toCurrency |-> input.toCurrency,
                                       rate |-> ToFixed6(exchangeRate)],
                        inputs |-> [amount |-> input.amount,
                                    fromCurrency |-> input.fromCurrency,
                                    toCurrency |-> input.toCurrency],
                        message |-> <<input.amount, " ", input.fromCurrency, " = ",
                                      ToFixed2(convertedAmount), " ", input.toCurrency>>]]

ConvertCurrencyCalls ==
    {[name |-> "convertCurrency",
      input |-> [amount |-> a, fromCurrency |-> "USD", toCurrency |-> t]] :
        a \in {Num(100), Rat(1, 2)}, t \in {"EUR", "XXX"}}

\* lines 1040-1044: the call issues its request and awaits the response
ConvertCurrencyRequest ==
    /\ svcPc = "called"
    /\ svcCall.name = "convertCurrency"
    /\ svcRequests' = svcRequests + 1
    /\ svcPc' = "awaiting"
    /\ UNCHANGED <<svcCall, svcResult, svcThrown>>
    /\ SvcFrame

\* lines 1046-1081: the response arrives, or the request fails
ConvertCurrencySettles(answer) ==
    /\ svcPc = "awaiting"
    /\ svcCall.name = "convertCurrency"
    /\ LET outcome == convertCurrency(svcCall.input, answer)
       IN IF outcome.threw
          THEN svcThrown' = outcome.error /\ svcPc' = "thrown" /\ svcResult' = svcResult
          ELSE svcResult' = outcome.value /\ svcPc' = "returned" /\ svcThrown' = svcThrown
    /\ UNCHANGED <<svcCall, svcRequests>>
    /\ SvcFrame

\* ---- calculateDebtToIncome, lines 1083-1116 ----

calculateDebtToIncome(input) ==
    LET dtir == RMul(RDiv(input.debtPayments, input.monthlyIncome), Num(100))
        assessment ==
            IF RLe(dtir, Num(36)) THEN "Excellent - You have a healthy debt-to-income ratio."
            ELSE IF RLe(dtir, Num(43))
            THEN "Good - Your ratio is manageable but could be improved."
            ELSE IF RLe(dtir, Num(50)) THEN "Fair - You may face difficulty obtaining credit."
            ELSE "Poor - Consider reducing your debt or increasing your income."
    IN [dtir |-> ToFixed2(dtir),
        assessment |-> assessment,
        breakdown |-> [totalMonthlyDebt |-> ToFixed2(input.debtPayments),
                       grossMonthlyIncome |-> ToFixed2(input.monthlyIncome),
                       remainingIncome |->
                          ToFixed2(RSub(input.monthlyIncome, input.debtPayments)),
                       debtPercentage |-> ToFixed2(dtir)],
        inputs |-> [debtPayments |-> input.debtPayments,
                    monthlyIncome |-> input.monthlyIncome],
        message |-> <<"Your Debt-to-Income Ratio is: ", ToFixed2(dtir), "%">>]

DebtToIncomeCalls ==
    {[name |-> "calculateDebtToIncome",
      input |-> [debtPayments |-> p, monthlyIncome |-> Num(1000)]] :
        p \in {Num(360), Num(361), Num(430), Num(500), Num(501), Rat(7001, 2)}}

DebtToIncome == SvcReturns("calculateDebtToIncome", calculateDebtToIncome(svcCall.input))

\* ---- calculateDividend, lines 1118-1143 ----

calculateDividend(input) ==
    LET totalDividendIncome ==
            RMul(RMul(input.numShares, input.annualDividend), input.timePeriod)
        annualIncome == RMul(input.numShares, input.annualDividend)
    IN [totalDividendIncome |-> ToFixed2(totalDividendIncome),
        breakdown |-> [numberOfShares |-> input.numShares,
                       annualDividendPerShare |-> ToFixed2(input.annualDividend),
                       annualIncome |-> ToFixed2(annualIncome),
                       timePeriodYears |-> input.timePeriod,
                       totalIncome |-> ToFixed2(totalDividendIncome)],
        inputs |-> [numShares |-> input.numShares,
                    annualDividend |-> input.annualDividend,
                    timePeriod |-> input.timePeriod],
        message |-> <<"Total Dividend Income: $", ToFixed2(totalDividendIncome)>>]

DividendCalls ==
    {[name |-> "calculateDividend",
      input |-> [numShares |-> s, annualDividend |-> v, timePeriod |-> t]] :
        s \in {Num(10), Rat(5, 2)}, v \in {Num(0), Rat(123, 100)}, t \in {Num(1), Rat(7, 2)}}

Dividend == SvcReturns("calculateDividend", calculateDividend(svcCall.input))

\* ---- calculateInvestmentReturn, lines 1145-1174 ----

calculateInvestmentReturn(input) ==
    LET rate == RDiv(input.annualReturnRate, Num(100))
        futureValue ==
            RMul(input.initialInvestment, RPow(RAdd(Num(1), rate), input.investmentYears))
        totalReturn == RSub(futureValue, input.initialInvestment)
        returnPercentage == RMul(RDiv(totalReturn, input.initialInvestment), Num(100))
    IN [futureValue |-> ToFixed2(futureValue),
        breakdown |-> [initialInvestment |-> ToFixed2(input.initialInvestment),
                       totalReturn |-> ToFixed2(totalReturn),
                       returnPercentage |-> ToFixed2(returnPercentage),
                       annualReturnRate |-> ToFixed2(input.annualReturnRate),
                       investmentPeriod |-> input.investmentYears],
        inputs |-> [initialInvestment |-> input.initialInvestment,
                    annualReturnRate |-> input.annualReturnRate,
                    investmentYears |-> input.investmentYears],
        message |-> <<"Future Value of Investment: $", ToFixed2(futureValue)>>]

InvestmentReturnCalls ==
    {[name |-> "calculateInvestmentReturn",
      input |-> [initialInvestment |-> Num(1000), annualReturnRate |-> r,
                 investmentYears |-> Num(y)]] :
        r \in {Num(-50), Num(0), Num(10), Num(1000)}, y \in 1..(MaxCompoundings - 1)}

InvestmentReturn ==
    SvcReturns("calculateInvestmentReturn", calculateInvestmentReturn(svcCall.input))

\* ---- calculateMortgage, lines 1282-1321 ----

calculateMortgage(input) ==
    \* numPayments is totalPayments, monthlyRate is monthlyInterestRate of the source
    LET numPayments == IF input.paymentType = "years"
                         THEN RMul(input.loanTerm, Num(12)) ELSE input.loanTerm
        monthlyRate == RDiv(RDiv(input.interestRate, Num(100)), Num(12))
        monthlyPayment ==
            IF monthlyRate = Num(0)
            THEN RDiv(input.loanAmount, numPayments)
            ELSE RDiv(RMul(input.loanAmount,
                           RMul(monthlyRate,
                                RPow(RAdd(Num(1), monthlyRate), numPayments))),
                      RSub(RPow(RAdd(Num(1), monthlyRate), numPayments), Num(1)))
        totalAmountPaid == RMul(monthlyPayment, numPayments)
        totalInterest == RSub(totalAmountPaid, input.loanAmount)
    IN [monthlyPayment |-> ToFixed2(monthlyPayment),
        breakdown |-> [loanAmount |-> ToFixed2(input.loanAmount),
                       totalPayments |-> numPayments,
                       totalAmountPaid |-> ToFixed2(totalAmountPaid),
                       totalInterest |-> ToFixed2(totalInterest),
                       monthlyInterestRate |-> ToFixed4(RMul(monthlyRate, Num(100)))],
        inputs |-> [loanAmount |-> input.loanAmount,
                    interestRate |-> input.interestRate,
                    loanTerm |-> input.loanTerm,
                    paymentType |-> input.paymentType],
        message |-> <<"Monthly Payment: $", ToFixed2(monthlyPayment)>>]

\* with interest, terms of at most MaxCompoundings months
MortgageCalls ==
    {c \in {[name |-> "calculateMortgage",
             input |-> [loanAmount |-> Num(1200), interestRate |-> r, loanTerm |-> Num(t),
                        paymentType |-> p]] :
               r \in {Num(0), Num(100)}, t \in 1..MaxCompoundings, p \in {"years", "months"}} :
        c.input.interestRate = Num(0) \/ c.input.paymentType = "months"}

Mortgage == SvcReturns("calculateMortgage", calculateMortgage(svcCall.input))

\* ---- calculateNetWorth, lines 1325-1355 ----

calculateNetWorth(input) ==
    LET netWorth == RSub(input.assets, input.liabilities)
        status ==
            IF RGt(netWorth, Num(0)) THEN "Positive - You have more assets than liabilities."
            ELSE IF netWorth = Num(0) THEN "Neutral - Your assets equal your liabilities."
            ELSE "Negative - You have more liabilities than assets."
    IN [netWorth |-> ToFixed2(netWorth),
        status |-> status,
        breakdown |-> [totalAssets |-> ToFixed2(input.assets),
                       totalLiabilities |-> ToFixed2(input.liabilities),
                       difference |-> ToFixed2(netWorth)],
        inputs |-> [assets |-> input.assets, liabilities |-> input.liabilities],
        message |-> <<"Your Net Worth: $", ToFixed2(netWorth)>>]

NetWorthCalls ==
    {[name |-> "calculateNetWorth", input |-> [assets |-> a, liabilities |-> l]] :
        a \in {Num(0), Num(5000), Rat(1, 3)}, l \in {Num(0), Num(5000)}}

NetWorth == SvcReturns("calculateNetWorth", calculateNetWorth(svcCall.input))

\* ---- calculateRuleOf72, lines 1399-1417 ----

\* variant: an echo of the rate rounded to cents
calculateRuleOf72Rounded(input) ==
    LET yearsToDouble == RDiv(Num(72), input.annualRate)
    IN [yearsToDouble |-> ToFixed2(yearsToDouble),
        breakdown |-> [annualRate |-> input.annualRate,
                       formula |-> "72 / Annual Rate",
                       yearsToDouble |-> ToFixed2(yearsToDouble)],
        inputs |-> [annualRate |-> ToFixed2(input.annualRate)],
        message |-> <<"Years to Double: ", ToFixed2(yearsToDouble), " years">>]

calculateRuleOf72(input) ==
    LET yearsToDouble == RDiv(Num(72), input.annualRate)
    IN [yearsToDouble |-> ToFixed2(yearsToDouble),
        breakdown |-> [annualRate |-> input.annualRate,
                       formula |-> "72 / Annual Rate",
                       yearsToDouble |-> ToFixed2(yearsToDouble)],
        inputs |-> [annualRate |-> input.annualRate],
        message |-> <<"Years to Double: ", ToFixed2(yearsToDouble), " years">>]

RuleOf72Calls ==
    {[name |-> "calculateRuleOf72", input |-> [annualRate |-> r]] :
        r \in {Num(6), Num(7), Rat(1, 3), Num(100)}}

RuleOf72 == SvcReturns("calculateRuleOf72", calculateRuleOf72(svcCall.input))

\* ---- calculateSavingsGoal, lines 1419-1451 ----

calculateSavingsGoal(input) ==
    LET totalMonths == RMul(input.timeFrame, Num(12))
        remainingGoal == RSub(input.savingsGoal, input.currentSavings)
        requiredSavings == IF RGt(remainingGoal, Num(0))
                           THEN RDiv(remainingGoal, totalMonths) ELSE Num(0)
        totalToSave == RMax(remainingGoal, Num(0))
    IN [requiredSavings |-> ToFixed2(requiredSavings),
        breakdown |-> [savingsGoal |-> ToFixed2(input.savingsGoal),
                       currentSavings |-> ToFixed2(input.currentSavings),
                       remainingGoal |-> ToFixed2(remainingGoal),
                       timeFrameYears |-> input.timeFrame,
                       totalMonths |-> totalMonths,
                       monthlyContribution |-> ToFixed2(requiredSavings)],
        inputs |-> [savingsGoal |-> input.savingsGoal,
                    currentSavings |-> input.currentSavings,
                    timeFrame |-> input.timeFrame],
        message |-> <<"Required Savings per Month: $", ToFixed2(requiredSavings)>>]

SavingsGoalCalls ==
    {[name |-> "calculateSavingsGoal",
      input |-> [savingsGoal |-> Num(10000), currentSavings |-> s, timeFrame |-> t]] :
        s \in {Num(0), Num(2500), Num(12000)}, t \in {Num(1), Rat(5, 2)}}

SavingsGoal == SvcReturns("calculateSavingsGoal", calculateSavingsGoal(svcCall.input))

SvcCalls ==
    BondPriceCalls \cup RetirementCalls \cup ModifiedDurationCalls \cup CDCalls
      \cup CompoundInterestCalls \cup BondYTMCalls \cup BreakEvenCalls
      \cup CreditPayoffCalls \cup BudgetCalls \cup ConvertCurrencyCalls
      \cup DebtToIncomeCalls \cup DividendCalls \cup InvestmentReturnCalls
      \cup MortgageCalls \cup NetWorthCalls \cup RuleOf72Calls \cup SavingsGoalCalls

SvcInit ==
    /\ svcCall \in SvcCalls
    /\ svcPc = "called"
    /\ svcRequests = 0
    /\ svcResult = Null
    /\ svcThrown = Null

SvcNext ==
    \/ BondPrice
    \/ Retirement
    \/ ModifiedDuration
    \/ CD
    \/ CompoundInterest
    \/ BondYTM
    \/ BreakEven
    \/ CreditPayoff
    \/ Budget
    \/ ConvertCurrencyRequest
    \/ \E answer \in ExchangeAnswers : ConvertCurrencySettles(answer)
    \/ DebtToIncome
    \/ Dividend
    \/ InvestmentReturn
    \/ Mortgage
    \/ NetWorth
    \/ RuleOf72
    \/ SavingsGoal

SvcIdle ==
    /\ svcCall = Null /\ svcPc = "idle" /\ svcRequests = 0
    /\ svcResult = Null /\ svcThrown = Null

\* ---- claims about the calculator functions ----

\* C17: with yieldRate = 0, calculateBondPrice returns couponPayment x
\* yearsToMaturity + faceValue, undiscounted (as every amount of the result,
\* rounded to cents), for every positive whole yearsToMaturity and positive
\* couponPayment and faceValue.
C17_BondPriceAtZeroYield ==
    (/\ svcPc = "returned"
     /\ svcCall.name = "calculateBondPrice"
     /\ bondPriceCalculatorSchema(svcCall.input)
     /\ svcCall.input.yieldRate = Num(0)) =>
        LET in == svcCall.input
            undiscounted == RAdd(RMul(in.couponPayment, in.yearsToMaturity), in.faceValue)
        IN /\ svcResult.bondPrice = ToFixed2(undiscounted)
           /\ (IsInteger(RMul(undiscounted, Num(100))) => svcResult.bondPrice = undiscounted)
           /\ svcResult.breakdown.presentValueOfFaceValue = ToFixed2(in.faceValue)

\* a three-year bond at yield 0: 3 x 50 + 1000 = 1150
C17_Witness ==
    /\ svcPc = "returned"
    /\ svcCall.name = "calculateBondPrice"
    /\ svcCall.input = [couponPayment |-> Num(50), yieldRate |-> Num(0),
                        yearsToMaturity |-> Num(3), faceValue |-> Num(1000)]
    /\ svcResult.bondPrice = Num(1150)

\* C18: when expectedRateOfReturn is exactly 0, calculateRetirement takes the
\* future value of the contributions as annualContributions x (retirementAge
\* - currentAge), without a division by the rate, and the total is that
\* amount plus currentSavings.
C18_RetirementAtZeroRate ==
    (/\ svcPc = "returned"
     /\ svcCall.name = "calculateRetirement"
     /\ retirementCalculatorSchema(svcCall.input)
     /\ svcCall.input.expectedRateOfReturn = Num(0)) =>
        LET in == svcCall.input
            contributions ==
                RMul(in.annualContributions, RSub(in.retirementAge, in.currentAge))
        IN /\ svcResult.breakdown.futureValueOfContributions = ToFixed2(contributions)
           /\ svcResult.breakdown.futureValueOfCurrentSavings = ToFixed2(in.currentSavings)
           /\ svcResult.futureValue = ToFixed2(RAdd(contributions, in.currentSavings))
           /\ ~IsNaN(svcResult.futureValue)

\* three years of 500 on savings of 1000 at rate 0: 1500 + 1000
C18_Witness ==
    /\ svcPc = "returned"
    /\ svcCall.name = "calculateRetirement"
    /\ svcCall.input.expectedRateOfReturn = Num(0)
    /\ svcCall.input.annualContributions = Num(500)
    /\ svcCall.input.currentSavings = Num(1000)
    /\ svcCall.input.retirementAge = Num(33)
    /\ svcResult.futureValue = Num(2500)

\* the present value of the payment of period t: the coupon, and at maturity
\* the face value too
PeriodPresentValue(in, t) ==
    LET perPeriod == RAdd(Num(1), RDiv(RDiv(in.yieldRate, Num(100)), in.periodsPerYear))
        coupon == RDiv(RMul(RDiv(in.couponRate, Num(100)), in.faceValue), in.periodsPerYear)
        payment == IF Num(t) = in.periodsPerYear THEN RAdd(coupon, in.faceValue) ELSE coupon
    IN RDiv(payment, RPowNat(perPeriod, t))

\* C19: for every accepted input of calculateModifiedDuration the modified
\* duration is the computed Macaulay duration divided by
\* 1 + yieldRate / periodsPerYear, and the Macaulay duration is the average
\* of the payment times weighted by the present values of the per-period
\* coupons and of the face value at maturity; the result reports both
\* rounded to two decimals.
C19_ModifiedDuration ==
    (/\ svcPc = "returned"
     /\ svcCall.name = "calculateModifiedDuration"
     /\ modifiedDurationCalculatorSchema(svcCall.input)) =>
        LET in == svcCall.input
            periods == 1..in.periodsPerYear.n
            values == ModifiedDurationValues(in)
            weightedTimes ==
                RSumOver([t \in periods |-> RMul(Num(t), PeriodPresentValue(in, t))], periods)
            presentValue == RSumOver([t \in periods |-> PeriodPresentValue(in, t)], periods)
        IN /\ ~IsNaN(values.macaulayDurationValue)
           /\ RMul(values.macaulayDurationValue, presentValue) = weightedTimes
           /\ RMul(values.modifiedDurationValue,
                   RAdd(Num(1), RDiv(RDiv(in.yieldRate, Num(100)), in.periodsPerYear)))
                 = values.macaulayDurationValue
           /\ svcResult.modifiedDuration = ToFixed2(values.modifiedDurationValue)
           /\ svcResult.breakdown.macaulayDuration = ToFixed2(values.macaulayDurationValue)

\* a quarterly bond with coupons at a nonzero yield
C19_Witness ==
    /\ svcPc = "returned"
    /\ svcCall.name = "calculateModifiedDuration"
    /\ svcCall.input.periodsPerYear = Num(4)
    /\ svcCall.input.yieldRate = Num(50)
    /\ svcCall.input.couponRate = Num(8)
    /\ RLt(svcResult.modifiedDuration, svcResult.breakdown.macaulayDuration)

\* the calls of the model that differ from a call at most in the time period
\* (rate = FALSE) or at most in the annual interest rate (rate = TRUE)
SameButFor(call, rate) ==
    {o \in CDCalls \cup CompoundInterestCalls :
        /\ o.name = call.name
        /\ o.input.principal = call.input.principal
        /\ o.input.compoundingFrequency = call.input.compoundingFrequency
        /\ IF rate THEN o.input.timePeriod = call.input.timePeriod
           ELSE IF call.name = "calculateCD"
           THEN o.input.annualInterestRate = call.input.annualInterestRate
           ELSE o.input.interestRate = call.input.interestRate}

RateOf(call) ==
    IF call.name = "calculateCD" THEN call.input.annualInterestRate
    ELSE call.input.interestRate

FutureValueOf(call) ==
    IF call.name = "calculateCD" THEN calculateCD(call.input).futureValue
    ELSE calculateCompoundInterest(call.input).futureValue

\* C20: for calculateCD and calculateCompoundInterest, the other inputs held
\* fixed, a longer timePeriod never gives a smaller futureValue and a higher
\* annual interest rate never gives a smaller futureValue.
C20_FutureValueMonotone ==
    (svcPc = "returned" /\ svcCall.name \in {"calculateCD", "calculateCompoundInterest"}) =>
        /\ svcResult.futureValue = FutureValueOf(svcCall)
        /\ \A o \in SameButFor(svcCall, FALSE) :
              RGe(o.input.timePeriod, svcCall.input.timePeriod)
                 => RGe(FutureValueOf(o), svcResult.futureValue)
        /\ \A o \in SameButFor(svcCall, TRUE) :
              RGe(RateOf(o), RateOf(svcCall))
                 => RGe(FutureValueOf(o), svcResult.futureValue)

\* a CD for which a longer period and a higher rate both give strictly more
C20_Witness ==
    /\ svcPc = "returned"
    /\ svcCall.name = "calculateCD"
    /\ \E o \in SameButFor(svcCall, FALSE) :
          /\ RGt(o.input.timePeriod, svcCall.input.timePeriod)
          /\ RGt(FutureValueOf(o), svcResult.futureValue)
    /\ \E o \in SameButFor(svcCall, TRUE) :
          /\ RGt(RateOf(o), RateOf(svcCall))
          /\ RGt(FutureValueOf(o), svcResult.futureValue)

\* ---- claims about every calculator of the service ----

\* the calculator functions declared without async: every one of the service
\* except analyzeStock, optimizePortfolio and convertCurrency
SynchronousCalculators ==
    {c.name : c \in SvcCalls} \ {"convertCurrency"}

StartsWith(message, prefix) ==
    /\ Len(message) >= Len(prefix)
    /\ SubSeq(message, 1, Len(prefix)) = prefix

\* C15 (as the code has it): a domain violation raised by calculateBreakEven
\* or calculateCreditPayoff reaches the caller as the error the function
\* constructed.  A failure of a market-data request does not: analyzeStock
\* replaces an Axios error by a new Error with its own message (any other
\* error it rethrows as it is), getStockData rejects with a new Error
\* "Failed to fetch data for <symbol>: ...", and optimizePortfolio throws a
\* new Error "Portfolio optimization failed: <message>".  No request is
\* issued twice.
C15_ErrorsToCaller ==
    /\ (svcPc = "thrown" /\ svcCall.name = "calculateBreakEven") =>
          /\ svcThrown = calculateBreakEven(svcCall.input).error
          /\ svcThrown = JsError("Selling price must be greater than variable cost per unit")
    /\ (svcPc = "thrown" /\ svcCall.name = "calculateCreditPayoff") =>
          svcThrown = calculateCreditPayoff(svcCall.input).error
    /\ anPc = "thrown" =>
          IF anCause.name = "AxiosError"
          THEN /\ anThrown = JsError("Failed to fetch stock data. Please check the symbol or try again later.")
               /\ anThrown # anCause
          ELSE anThrown = anCause
    /\ portfolioPc \in {"awaiting", "thrown"} =>
          \A i \in DOMAIN symbols :
             fetchState[i] = "rejected" =>
                StartsWith(fetchValue[i].message,
                           <<"Failed to fetch data for ", symbols[i], ": ">>)
    /\ portfolioPc = "thrown" =>
          /\ \E i \in DOMAIN symbols :
                fetchState[i] = "rejected" /\ allPromise.value = fetchValue[i]
          /\ portfolioOutcome.error =
                JsError(<<"Portfolio optimization failed: ">> \o allPromise.value.message)
          /\ portfolioOutcome.error # allPromise.value
    /\ anPc # "idle" => anCalls <= 3
    /\ portfolioPc # "idle" => \A i \in DOMAIN symbols : fetchCalls[i] <= 1
    /\ svcPc # "idle" => svcRequests <= 1

\* a failed request of analyzeStock and the error the caller gets instead
C15_Witness ==
    /\ anPc = "thrown"
    /\ anCause = AxiosError("Network Error")
    /\ anThrown.name = "Error"
    /\ anThrown.message # anCause.message

\* C15 as stated: the error the caller gets is the error that was raised.
C15_Unmodified ==
    /\ anPc = "thrown" => anThrown = anCause
    /\ portfolioPc = "thrown" => portfolioOutcome.error = allPromise.value

C29_SameBasePayment ==
    (loanPc = "done" /\ loanInput.extraPayment = Num(0)) =>
        loanResult.summary.baseMonthlyPayment =
            calculateMortgage([loanAmount |-> loanInput.principal,
                               interestRate |-> loanInput.annualInterestRate,
                               loanTerm |-> loanInput.loanTerm,
                               paymentType |-> loanInput.loanTermType]).monthlyPayment

\* C30: for every accepted input whose monthlyPayment exceeds the monthly
\* interest, interestRate = 0 included, calculateCreditPayoff returns a
\* defined whole number of months, at least 1, with monthsToPayoff x
\* monthlyPayment >= balance, so that the reported total interest is not
\* negative.
C30_PayoffMonthsDefined ==
    (/\ svcPc = "returned"
     /\ svcCall.name = "calculateCreditPayoff"
     /\ creditPayoffCalculatorSchema(svcCall.input)) =>
        /\ ~IsNaN(svcResult.monthsToPayoff)
        /\ IsInteger(svcResult.monthsToPayoff)
        /\ RGe(svcResult.monthsToPayoff, Num(1))
        /\ RGe(RMul(svcResult.monthsToPayoff, svcCall.input.monthlyPayment),
               svcCall.input.balance)
        /\ RGe(svcResult.totalInterest, Num(0))

-----------------------------------------------------------------------------
(* AuthService, EmailService: accounts, verification and password reset     *)

\* the largest value of the clock, the most tokens generated, and the most
\* calls of the service in one behaviour
MaxClock == 2
MaxTokens == 2
MaxCalls == 3

\* NULL in a token, date or customer column
NoToken == 0
NoDate == 0
NoCustomer == ""

Emails == {"ann@example.com", "bob@example.com"}
\* the names and passwords a request carries
Applicants == {[firstName |-> "Ann", lastName |-> "Lee", password |-> "Passw0rd!"],
               [firstName |-> "Bob", lastName |-> "Ray", password |-> "Secret#2"]}

\* users.id (a random uuid) of the row inserted for an email
IdOf(email) == IF email = "ann@example.com" THEN "id-ann" ELSE "id-bob"
UserIds == {IdOf(e) : e \in Emails}

\* PasswordUtil.hash / PasswordUtil.compare: bcrypt
PasswordHash(password) == <<"bcrypt", password>>
PasswordCompare(password, hash) == hash = PasswordHash(password)

\* ApiError.internal(message)
ApiErrorInternal(message) ==
    [name |-> "ApiError", statusCode |-> 500, message |-> message]

NoError == [name |-> "", statusCode |-> 0, message |-> ""]

\* email.service.ts: const expiryDate = new Date(Date.now() + 3600000), one
\* hour, in units of half an hour
TokenLifetime == 2

\* db.insert(users).values({firstName, lastName, email, password}): the other
\* columns take their defaults
NewUser(firstName, lastName, email, hashedPassword) ==
    [id |-> IdOf(email), firstName |-> firstName, lastName |-> lastName,
     email |-> email, password |-> hashedPassword, isVerified |-> FALSE,
     verifyToken |-> NoToken, verifyTokenExpiry |-> NoDate,
     forgotPasswordToken |-> NoToken, forgotPasswordTokenExpiry |-> NoDate,
     plan |-> "free", customerId |-> NoCustomer]

\* select().from(users).where(eq(users.email, email)).limit(1)
UsersByEmail(table, email) == {e \in Emails : table[e] # Null /\ e = email}

\* select().from(users).where(eq(users.id, userId)).limit(1)
UsersById(table, userId) == {e \in Emails : table[e] # Null /\ table[e].id = userId}

\* variant: a token of a row matches whatever its expiry
VerifyTokenMatchesExpired(row, token, at) == row.verifyToken = token

\* verifyEmail: and(eq(users.verifyToken, token), gt(users.verifyTokenExpiry, new Date()))
VerifyTokenMatches(row, token, at) ==
    /\ row.verifyToken # NoToken /\ row.verifyToken = token
    /\ row.verifyTokenExpiry # NoDate /\ row.verifyTokenExpiry > at

\* verifyResetToken: and(eq(users.forgotPasswordToken, token),
\* gt(users.forgotPasswordTokenExpiry, new Date()))
ResetTokenMatches(row, token, at) ==
    /\ row.forgotPasswordToken # NoToken /\ row.forgotPasswordToken = token
    /\ row.forgotPasswordTokenExpiry # NoDate /\ row.forgotPasswordTokenExpiry > at

\* EmailService.sendEmail for 'VERIFY' and 'RESET': PasswordUtil.generateToken
\* (bcrypt with a random salt: a value not generated before), the update of
\* the user's row, and resend.emails.send, which delivers or fails.
\* [table, issued, mail, error]
sendEmail(table, email, emailType, userId, sent) ==
    LET hashedToken == Len(issued) + 1
        expiryDate == authNow + TokenLifetime
        target == UsersById(table, userId)
        stored ==
            IF emailType = "VERIFY"
            THEN [e \in Emails |->
                    IF e \in target
                    THEN [table[e] EXCEPT !.verifyToken = hashedToken,
                                          !.verifyTokenExpiry = expiryDate]
                    ELSE table[e]]
            ELSE IF emailType = "RESET"
            THEN [e \in Emails |->
                    IF e \in target
                    THEN [table[e] EXCEPT !.forgotPasswordToken = hashedToken,
                                          !.forgotPasswordTokenExpiry = expiryDate]
                    ELSE table[e]]
            ELSE table
        tokens == IF emailType \in {"VERIFY", "RESET"}
                  THEN Append(issued, authNow) ELSE issued
        letter == [to |-> email, emailType |-> emailType,
                   hashedToken |-> IF emailType \in {"VERIFY", "RESET"}
                                   THEN hashedToken ELSE NoToken]
    IN [table |-> stored,
        issued |-> tokens,
        mail |-> IF sent THEN Append(mail, letter) ELSE mail,
        error |-> IF sent THEN NoError
                  ELSE ApiErrorInternal(<<"Failed to send ", emailType, " email">>)]

\* whether sendEmail can generate one more token within the bounds of the model
CanIssue == Len(issued) < MaxTokens

\* what a call leaves in the history: the call, the tables and the mail
\* before it, and the error it threw (NoError when it returned)
AuthCall(op, arg, error) ==
    [seq |-> authLast.seq + 1, op |-> op, arg |-> arg, at |-> authNow, usersBefore |-> users,
     mailBefore |-> mail, grantsBefore |-> resetGrants, error |-> error]

AuthUnchangedHook == UNCHANGED <<subscriptions, subscriptionEntries, deliveries, jwts, premiumLast>>

\* variant: signup treats every existing account as unverified
IsVerifiedAccountNever(table, email) == FALSE

\* signup lines 28-30: if (existingUser.length > 0) { ... if (user.isVerified)
IsVerifiedAccount(table, email) ==
    UsersByEmail(table, email) # {} /\ table[email].isVerified

\* lines 17-85
Signup(firstName, lastName, email, password, sent) ==
    LET existingUser == UsersByEmail(users, email)
    IN /\ IF IsVerifiedAccount(users, email)
          THEN /\ authLast' = AuthCall("signup", email,
                     ApiErrorBadRequest("An account with this email address already exists."))
               /\ UNCHANGED <<users, issued, mail>>
          ELSE /\ CanIssue
               /\ LET table == IF existingUser # {}
                               THEN [users EXCEPT ![email].firstName = firstName,
                                                  ![email].lastName = lastName,
                                                  ![email].password = PasswordHash(password)]
                               ELSE [users EXCEPT ![email] =
                                        NewUser(firstName, lastName, email,
                                                PasswordHash(password))]
                      out == sendEmail(table, email, "VERIFY", IdOf(email), sent)
                  IN /\ users' = out.table
                     /\ issued' = out.issued
                     /\ mail' = out.mail
                     /\ authLast' = AuthCall("signup", email, out.error)
       /\ UNCHANGED <<authNow, verifiedLog, resetGrants>>
       /\ AuthUnchangedHook
       /\ AcctFrame

\* lines 158-199
VerifyEmail(token) ==
    LET existingUser == {e \in Emails : users[e] # Null
                                         /\ VerifyTokenMatches(users[e], token, authNow)}
    IN /\ IF existingUser = {}
          THEN /\ authLast' = AuthCall("verifyEmail", token,
                     ApiErrorBadRequest("Token is expired. Please sign-up and try again"))
               /\ UNCHANGED <<users, verifiedLog>>
          ELSE LET user == CHOOSE e \in existingUser : TRUE
               IN /\ users' = [users EXCEPT ![user].isVerified = TRUE,
                                            ![user].verifyToken = NoToken,
                                            ![user].verifyTokenExpiry = NoDate]
                  /\ verifiedLog' = Append(verifiedLog, [token |-> token, at |-> authNow])
                  /\ authLast' = AuthCall("verifyEmail", token, NoError)
       /\ UNCHANGED <<authNow, issued, mail, resetGrants>>
       /\ AuthUnchangedHook
       /\ AcctFrame

\* lines 205-234
ForgotPassword(email, sent) ==
    LET existingUser == UsersByEmail(users, email)
    IN /\ IF existingUser = {}
          THEN /\ authLast' = AuthCall("forgotPassword", email,
                                       ApiErrorBadRequest("Invalid email address"))
               /\ UNCHANGED <<users, issued, mail>>
          ELSE /\ CanIssue
               /\ LET out == sendEmail(users, email, "RESET", users[email].id, sent)
                  IN /\ users' = out.table
                     /\ issued' = out.issued
                     /\ mail' = out.mail
                     /\ authLast' = AuthCall("forgotPassword", email, out.error)
       /\ UNCHANGED <<authNow, verifiedLog, resetGrants>>
       /\ AuthUnchangedHook
       /\ AcctFrame

\* lines 240-288
VerifyResetToken(token) ==
    LET existingUser == {e \in Emails : users[e] # Null
                                         /\ ResetTokenMatches(users[e], token, authNow)}
    IN /\ IF existingUser = {}
          THEN /\ authLast' = AuthCall("verifyResetToken", token,
                     ApiErrorBadRequest("Token is expired. Please try to reset your password again! Thanks"))
               /\ UNCHANGED <<users, resetGrants>>
          ELSE LET user == CHOOSE e \in existingUser : TRUE
               IN /\ users' = [users EXCEPT ![user].forgotPasswordToken = NoToken,
                                            ![user].forgotPasswordTokenExpiry = NoDate]
                  /\ resetGrants' = [resetGrants EXCEPT ![users[user].id] = @ + 1]
                  /\ authLast' = AuthCall("verifyResetToken", token, NoError)
       /\ UNCHANGED <<authNow, issued, mail, verifiedLog>>
       /\ AuthUnchangedHook
       /\ AcctFrame

\* lines 294-334
ChangePassword(userId, password, sent) ==
    LET existingUser == UsersById(users, userId)
    IN /\ IF existingUser = {}
          THEN /\ authLast' = AuthCall("changePassword", userId,
                                       ApiErrorBadRequest("User not found"))
               /\ UNCHANGED <<users, issued, mail, resetGrants>>
          ELSE LET user == CHOOSE e \in existingUser : TRUE
                   table == [users EXCEPT ![user].password = PasswordHash(password)]
                   out == sendEmail(table, users[user].email, "CHANGE_PASSWORD",
                                    users[user].id, sent)
               IN /\ users' = out.table
                  /\ issued' = out.issued
                  /\ mail' = out.mail
                  /\ resetGrants' = [resetGrants EXCEPT
                                       ![userId] = IF @ > 0 THEN @ - 1 ELSE 0]
                  /\ authLast' = AuthCall("changePassword", userId, out.error)
       /\ UNCHANGED <<authNow, verifiedLog>>
       /\ AuthUnchangedHook
       /\ AcctFrame

\* time passes
AuthTick ==
    /\ authNow < MaxClock
    /\ authNow' = authNow + 1
    /\ UNCHANGED <<users, issued, mail, authLast, verifiedLog, resetGrants>>
    /\ AuthUnchangedHook
    /\ AcctFrame

NoCall ==
    [seq |-> 0, op |-> "", arg |-> "", at |-> 0, usersBefore |-> [e \in Emails |-> Null],
     mailBefore |-> <<>>, grantsBefore |-> [u \in UserIds |-> 0], error |-> NoError]

AuthInit ==
    /\ users = [e \in Emails |-> Null]
    /\ subscriptions = <<>>
    /\ subscriptionEntries = <<>>
    /\ authNow = 0
    /\ issued = <<>>
    /\ mail = <<>>
    /\ authLast = NoCall
    /\ verifiedLog = <<>>
    /\ resetGrants = [u \in UserIds |-> 0]
    /\ deliveries = <<>>
    /\ jwts = {}
    /\ premiumLast = Null

\* whether one more call fits the bound of the model
CanCall == authLast.seq < MaxCalls

AuthNext ==
    \/ \E a \in Applicants, e \in Emails, sent \in BOOLEAN :
          CanCall /\ Signup(a.firstName, a.lastName, e, a.password, sent)
    \/ \E t \in 1..MaxTokens : CanCall /\ VerifyEmail(t)
    \/ \E e \in Emails, sent \in BOOLEAN : CanCall /\ ForgotPassword(e, sent)
    \/ \E t \in 1..MaxTokens : CanCall /\ VerifyResetToken(t)
    \/ \E u \in UserIds, a \in Applicants, sent \in BOOLEAN :
          CanCall /\ ChangePassword(u, a.password, sent)
    \/ AuthTick

AcctIdle ==
    /\ users = [e \in Emails |-> Null]
    /\ subscriptions = <<>> /\ subscriptionEntries = <<>>
    /\ authNow = 0 /\ issued = <<>> /\ mail = <<>> /\ authLast = NoCall
    /\ verifiedLog = <<>> /\ resetGrants = [u \in UserIds |-> 0]
    /\ deliveries = <<>> /\ jwts = {} /\ premiumLast = Null

-----------------------------------------------------------------------------
(* WebhookController.handleStripe and WebhookService: Stripe webhooks       *)

\* the deliveries of one behaviour; several can be in progress at once
DeliveryIds == {1, 2}

\* the events Stripe sends about one customer (the fields the handlers read)
StripeEvent(id, type, invoice, periodEnd) ==
    [id |-> id, type |-> type, email |-> "ann@example.com", customer |-> "cus_ann",
     price |-> "price_monthly", invoice |-> invoice, status |-> "active",
     periodEnd |-> periodEnd]

CheckoutCompleted == StripeEvent("evt_1", "checkout.session.completed", "INV-1", 1)
SubscriptionCreated == StripeEvent("evt_2", "customer.subscription.created", "INV-1", 1)
SubscriptionUpdated == StripeEvent("evt_3", "customer.subscription.updated", "INV-1", 1)
InvoicePaid == StripeEvent("evt_4", "invoice.payment_succeeded", "INV-2", 2)
SubscriptionDeleted == StripeEvent("evt_5", "customer.subscription.deleted", "INV-2", 2)

StripeEvents == {CheckoutCompleted, SubscriptionCreated, SubscriptionUpdated,
                 InvoicePaid, SubscriptionDeleted}

NoEvent == [id |-> "", type |-> "", email |-> "", customer |-> "", price |-> "",
            invoice |-> "", status |-> "", periodEnd |-> 0]

\* the stripe-signature header: absent, or a timestamp and a digest
NoSignature == <<>>
SignatureOf(payload) == <<"t=1", "v1", payload.id>>
Signatures(payload) == {NoSignature, <<"t=1", "v1", "forged">>, SignatureOf(payload)}

\* part_003 line 19: if (!signature)
SignatureMissing(signature) == signature = NoSignature

\* variant: constructEvent accepts whatever signature it is given
verifyWebhookSignatureAny(payload, signature) ==
    [ok |-> TRUE, event |-> payload, error |-> NoError]

\* webhook.service.ts lines 16-31: stripe.webhooks.constructEvent returns the
\* event when the signature is the digest of the payload and throws otherwise
verifyWebhookSignature(payload, signature) ==
    IF signature = SignatureOf(payload)
    THEN [ok |-> TRUE, event |-> payload, error |-> NoError]
    ELSE [ok |-> FALSE, event |-> NoEvent,
          error |-> ApiErrorBadRequest("Webhook signature verification failed")]

\* config.STRIPE_YEARLY_PRICE_ID / STRIPE_MONTHLY_PRICE_ID: the period of a price
PeriodOf(priceId) ==
    IF priceId = "price_yearly" THEN "yearly"
    ELSE IF priceId = "price_monthly" THEN "monthly"
    ELSE ""

\* handleStripeWebhook lines 36-75: the switch on event.type; where the
\* handler of the event starts, "responded" for a type that writes nothing
FirstStep(type) ==
    CASE type = "checkout.session.completed" -> "checkout.customer"
      [] type = "customer.subscription.updated" -> "updated.subscription"
      [] type = "customer.subscription.deleted" -> "deleted.select"
      [] type = "invoice.payment_succeeded" -> "invoice.select"
      [] OTHER -> "responded"

Tables == <<users, subscriptions, subscriptionEntries>>

Pending ==
    [pc |-> "pending", event |-> NoEvent, signature |-> NoSignature, status |-> 0,
     handled |-> FALSE, writes |-> 0, redelivery |-> FALSE, user |-> "",
     existing |-> 0, subscriptionId |-> 0,
     before |-> <<>>, after |-> <<>>]

\* where(eq(users.customerId, customerId)).limit(1)
UsersByCustomer(table, customerId) ==
    {e \in Emails : table[e] # Null /\ table[e].customerId = customerId}

\* select().from(subscriptions).where(eq(subscriptions.userId, userId)).limit(1):
\* the id of the row found, 0 when there is none
SubscriptionOf(rows, userId) ==
    LET found == {i \in DOMAIN rows : rows[i].userId = userId}
    IN IF found = {} THEN 0
       ELSE rows[CHOOSE i \in found : \A j \in found : i <= j].id

\* UserService.updateUserPlan
updateUserPlan(table, userId, plan) ==
    [e \in Emails |-> IF table[e] # Null /\ table[e].id = userId
                      THEN [table[e] EXCEPT !.plan = plan] ELSE table[e]]

\* UserService.updateCustomerId
updateCustomerId(table, userId, customerId) ==
    [e \in Emails |-> IF table[e] # Null /\ table[e].id = userId
                      THEN [table[e] EXCEPT !.customerId = customerId] ELSE table[e]]

HookUnchangedAuth ==
    UNCHANGED <<authNow, issued, mail, authLast, verifiedLog, resetGrants, jwts, premiumLast>>

\* res.status(status): the end of handleStripe for delivery d, with the
\* tables it leaves behind
Responded(d, status, tables) ==
    [deliveries[d] EXCEPT !.pc = "responded", !.status = status, !.after = tables]

\* part_003 lines 15-37: the request arrives, the signature is looked for and
\* verified, and handleStripeWebhook is entered up to the first await of the
\* handler of the event
Receive(d, payload, signature) ==
    /\ deliveries[d].pc = "pending"
    /\ \A c \in DeliveryIds : c < d => deliveries[c].pc # "pending"
    /\ LET arrived == [deliveries[d] EXCEPT
                          !.event = payload, !.signature = signature,
                          !.before = Tables,
                          !.redelivery =
                              \E c \in DeliveryIds :
                                  /\ c # d
                                  /\ deliveries[c].pc = "responded"
                                  /\ deliveries[c].status = 200
                                  /\ deliveries[c].event = payload]
           verified == verifyWebhookSignature(payload, signature)
       IN deliveries' = [deliveries EXCEPT ![d] =
              IF SignatureMissing(signature)
              THEN [arrived EXCEPT !.pc = "responded", !.status = 400, !.after = Tables]
              ELSE IF ~verified.ok
              THEN [arrived EXCEPT !.pc = "responded", !.status = 400, !.after = Tables]
              ELSE IF FirstStep(verified.event.type) = "responded"
              THEN [arrived EXCEPT !.handled = TRUE, !.pc = "responded",
                                   !.status = 200, !.after = Tables]
              ELSE [arrived EXCEPT !.handled = TRUE,
                                   !.pc = FirstStep(verified.event.type)]]
    /\ UNCHANGED <<users, subscriptions, subscriptionEntries>>
    /\ HookUnchangedAuth
    /\ AcctFrame

\* handleCheckoutSessionCompleted lines 81-107: the session, the user of its
\* email, and the customer id of a user that has none
CheckoutCustomer(d) ==
    /\ deliveries[d].pc = "checkout.customer"
    /\ LET found == UsersByEmail(users, deliveries[d].event.email)
           customerId == deliveries[d].event.customer
       IN IF found = {}
          THEN /\ deliveries' = [deliveries EXCEPT ![d] = Responded(d, 400, Tables)]
               /\ UNCHANGED users
          ELSE LET user == CHOOSE e \in found : TRUE
                   stores == users[user].customerId = NoCustomer /\ customerId # ""
               IN /\ users' = IF stores
                              THEN updateCustomerId(users, users[user].id, customerId)
                              ELSE users
                  /\ deliveries' = [deliveries EXCEPT
                        ![d].user = user,
                        ![d].writes = IF stores THEN @ + 1 ELSE @,
                        ![d].pc = "checkout.select"]
    /\ UNCHANGED <<subscriptions, subscriptionEntries>>
    /\ HookUnchangedAuth
    /\ AcctFrame

\* lines 110-139: the price of the line item, then the select of the user's
\* subscription
CheckoutSelect(d) ==
    /\ deliveries[d].pc = "checkout.select"
    /\ deliveries' = [deliveries EXCEPT ![d] =
          IF PeriodOf(deliveries[d].event.price) = ""
          THEN Responded(d, 400, Tables)
          ELSE [deliveries[d] EXCEPT
                  !.existing = SubscriptionOf(subscriptions,
                                              users[deliveries[d].user].id),
                  !.pc = "checkout.upsert"]]
    /\ UNCHANGED <<users, subscriptions, subscriptionEntries>>
    /\ HookUnchangedAuth
    /\ AcctFrame

\* lines 141-171: update the rows of the user when the select found one,
\* insert a row otherwise
CheckoutUpsert(d) ==
    /\ deliveries[d].pc = "checkout.upsert"
    /\ LET userId == users[deliveries[d].user].id
           period == PeriodOf(deliveries[d].event.price)
           endDate == deliveries[d].event.periodEnd
           newId == Len(subscriptions) + 1
       IN IF deliveries[d].existing # 0
          THEN /\ subscriptions' =
                     [i \in DOMAIN subscriptions |->
                        IF subscriptions[i].userId = userId
                        THEN [subscriptions[i] EXCEPT !.plan = "premium",
                                 !.period = period, !.endDate = endDate]
                        ELSE subscriptions[i]]
               /\ deliveries' = [deliveries EXCEPT
                     ![d].subscriptionId = deliveries[d].existing,
                     ![d].writes = @ + 1,
                     ![d].pc = "checkout.entry"]
          ELSE /\ subscriptions' = Append(subscriptions,
                     [id |-> newId, userId |-> userId, plan |-> "premium",
                      period |-> period, endDate |-> endDate])
               /\ deliveries' = [deliveries EXCEPT
                     ![d].subscriptionId = newId,
                     ![d].writes = @ + 1,
                     ![d].pc = "checkout.entry"]
    /\ UNCHANGED <<users, subscriptionEntries>>
    /\ HookUnchangedAuth
    /\ AcctFrame

\* lines 173-183
CheckoutEntry(d) ==
    /\ deliveries[d].pc = "checkout.entry"
    /\ subscriptionEntries' = Append(subscriptionEntries,
          [subscriptionId |-> deliveries[d].subscriptionId,
           invoiceId |-> deliveries[d].event.invoice,
           status |-> "Subscribed"])
    /\ deliveries' = [deliveries EXCEPT ![d].writes = @ + 1, ![d].pc = "checkout.plan"]
    /\ UNCHANGED <<users, subscriptions>>
    /\ HookUnchangedAuth
    /\ AcctFrame

\* line 186, and the response of the controller
CheckoutPlan(d) ==
    /\ deliveries[d].pc = "checkout.plan"
    /\ users' = updateUserPlan(users, users[deliveries[d].user].id, "premium")
    /\ deliveries' = [deliveries EXCEPT ![d] =
          [Responded(d, 200, <<users', subscriptions, subscriptionEntries>>)
             EXCEPT !.writes = @ + 1]]
    /\ UNCHANGED <<subscriptions, subscriptionEntries>>
    /\ HookUnchangedAuth
    /\ AcctFrame

\* handleSubscriptionUpdated lines 215-262: the user of the customer, and for
\* an active subscription the update of the user's rows
UpdatedSubscription(d) ==
    /\ deliveries[d].pc = "updated.subscription"
    /\ LET found == UsersByCustomer(users, deliveries[d].event.customer)
           period == PeriodOf(deliveries[d].event.price)
       IN IF found = {} \/ (deliveries[d].event.status = "active" /\ period = "")
          THEN /\ deliveries' = [deliveries EXCEPT ![d] = Responded(d, 400, Tables)]
               /\ UNCHANGED subscriptions
          ELSE IF deliveries[d].event.status # "active"
          THEN /\ deliveries' = [deliveries EXCEPT ![d] = Responded(d, 200, Tables)]
               /\ UNCHANGED subscriptions
          ELSE LET user == CHOOSE e \in found : TRUE
               IN /\ subscriptions' =
                        [i \in DOMAIN subscriptions |->
                           IF subscriptions[i].userId = users[user].id
                           THEN [subscriptions[i] EXCEPT !.plan = "premium",
                                    !.period = period,
                                    !.endDate = deliveries[d].event.periodEnd]
                           ELSE subscriptions[i]]
                  /\ deliveries' = [deliveries EXCEPT
                        ![d].user = user, ![d].writes = @ + 1,
                        ![d].pc = "updated.plan"]
    /\ UNCHANGED <<users, subscriptionEntries>>
    /\ HookUnchangedAuth
    /\ AcctFrame

\* line 265, and the response of the controller
UpdatedPlan(d) ==
    /\ deliveries[d].pc = "updated.plan"
    /\ users' = updateUserPlan(users, users[deliveries[d].user].id, "premium")
    /\ deliveries' = [deliveries EXCEPT ![d] =
          [Responded(d, 200, <<users', subscriptions, subscriptionEntries>>)
             EXCEPT !.writes = @ + 1]]
    /\ UNCHANGED <<subscriptions, subscriptionEntries>>
    /\ HookUnchangedAuth
    /\ AcctFrame

\* handleSubscriptionDeleted lines 274-301: the user of the customer and the
\* select of the user's subscription
DeletedSelect(d) ==
    /\ deliveries[d].pc = "deleted.select"
    /\ LET found == UsersByCustomer(users, deliveries[d].event.customer)
       IN deliveries' = [deliveries EXCEPT ![d] =
             IF found = {}
             THEN Responded(d, 400, Tables)
             ELSE LET user == CHOOSE e \in found : TRUE
                      existing == SubscriptionOf(subscriptions, users[user].id)
                  IN [deliveries[d] EXCEPT
                        !.user = user, !.existing = existing,
                        !.pc = IF existing # 0 THEN "deleted.entries"
                               ELSE "deleted.plan"]]
    /\ UNCHANGED <<users, subscriptions, subscriptionEntries>>
    /\ HookUnchangedAuth
    /\ AcctFrame

\* lines 303-323: the latest invoice, and its entry set to 'Canceled'
DeletedEntries(d) ==
    /\ deliveries[d].pc = "deleted.entries"
    /\ subscriptionEntries' =
          [i \in DOMAIN subscriptionEntries |->
             IF /\ subscriptionEntries[i].subscriptionId = deliveries[d].existing
                /\ subscriptionEntries[i].invoiceId = deliveries[d].event.invoice
             THEN [subscriptionEntries[i] EXCEPT !.status = "Canceled"]
             ELSE subscriptionEntries[i]]
    /\ deliveries' = [deliveries EXCEPT ![d].writes = @ + 1,
                                        ![d].pc = "deleted.subscription"]
    /\ UNCHANGED <<users, subscriptions>>
    /\ HookUnchangedAuth
    /\ AcctFrame

\* lines 325-332
DeletedSubscription(d) ==
    /\ deliveries[d].pc = "deleted.subscription"
    /\ subscriptions' =
          [i \in DOMAIN subscriptions |->
             IF subscriptions[i].userId = users[deliveries[d].user].id
             THEN [subscriptions[i] EXCEPT !.plan = "free"]
             ELSE subscriptions[i]]
    /\ deliveries' = [deliveries EXCEPT ![d].writes = @ + 1, ![d].pc = "deleted.plan"]
    /\ UNCHANGED <<users, subscriptionEntries>>
    /\ HookUnchangedAuth
    /\ AcctFrame

\* line 336, and the response of the controller
DeletedPlan(d) ==
    /\ deliveries[d].pc = "deleted.plan"
    /\ users' = updateUserPlan(users, users[deliveries[d].user].id, "free")
    /\ deliveries' = [deliveries EXCEPT ![d] =
          [Responded(d, 200, <<users', subscriptions, subscriptionEntries>>)
             EXCEPT !.writes = @ + 1]]
    /\ UNCHANGED <<subscriptions, subscriptionEntries>>
    /\ HookUnchangedAuth
    /\ AcctFrame

\* handleInvoicePaymentSucceeded lines 345-378: the subscription of the
\* invoice, the user of its customer, the select of the user's subscription
InvoiceSelect(d) ==
    /\ deliveries[d].pc = "invoice.select"
    /\ LET found == UsersByCustomer(users, deliveries[d].event.customer)
       IN deliveries' = [deliveries EXCEPT ![d] =
             IF found = {}
             THEN Responded(d, 400, Tables)
             ELSE LET user == CHOOSE e \in found : TRUE
                      existing == SubscriptionOf(subscriptions, users[user].id)
                  IN IF existing = 0
                     THEN Responded(d, 200, Tables)
                     ELSE [deliveries[d] EXCEPT
                             !.user = user, !.existing = existing,
                             !.pc = "invoice.entry"]]
    /\ UNCHANGED <<users, subscriptions, subscriptionEntries>>
    /\ HookUnchangedAuth
    /\ AcctFrame

\* lines 386-396
InvoiceEntry(d) ==
    /\ deliveries[d].pc = "invoice.entry"
    /\ subscriptionEntries' = Append(subscriptionEntries,
          [subscriptionId |-> deliveries[d].existing,
           invoiceId |-> deliveries[d].event.invoice,
           status |-> "Renewal"])
    /\ deliveries' = [deliveries EXCEPT ![d].writes = @ + 1, ![d].pc = "invoice.endDate"]
    /\ UNCHANGED <<users, subscriptions>>
    /\ HookUnchangedAuth
    /\ AcctFrame

\* lines 398-405, and the response of the controller
InvoiceEndDate(d) ==
    /\ deliveries[d].pc = "invoice.endDate"
    /\ subscriptions' =
          [i \in DOMAIN subscriptions |->
             IF subscriptions[i].id = deliveries[d].existing
             THEN [subscriptions[i] EXCEPT !.endDate = deliveries[d].event.periodEnd]
             ELSE subscriptions[i]]
    /\ deliveries' = [deliveries EXCEPT ![d] =
          [Responded(d, 200, <<users, subscriptions', subscriptionEntries>>)
             EXCEPT !.writes = @ + 1]]
    /\ UNCHANGED <<users, subscriptionEntries>>
    /\ HookUnchangedAuth
    /\ AcctFrame

\* the steps of the handlers that await a write to the database
WriteSteps ==
    {"checkout.upsert", "checkout.entry", "checkout.plan",
     "updated.plan",
     "deleted.entries", "deleted.subscription", "deleted.plan",
     "invoice.entry", "invoice.endDate"}

\* an awaited write rejects (the database is unreachable, or the statement
\* fails): the handler throws, handleStripeWebhook rethrows, and the catch of
\* the controller answers 400 (part_003 lines 40-43); nothing is rolled back
WriteRejects(d) ==
    /\ deliveries[d].pc \in WriteSteps
    /\ deliveries' = [deliveries EXCEPT ![d] = Responded(d, 400, Tables)]
    /\ UNCHANGED <<users, subscriptions, subscriptionEntries>>
    /\ HookUnchangedAuth
    /\ AcctFrame

\* a verified user who has not subscribed yet
Subscriber ==
    [NewUser("Ann", "Lee", "ann@example.com", PasswordHash("Passw0rd!"))
        EXCEPT !.isVerified = TRUE]

HookInit ==
    /\ users = [e \in Emails |-> IF e = "ann@example.com" THEN Subscriber ELSE Null]
    /\ subscriptions = <<>>
    /\ subscriptionEntries = <<>>
    /\ authNow = 0
    /\ issued = <<>>
    /\ mail = <<>>
    /\ authLast = NoCall
    /\ verifiedLog = <<>>
    /\ resetGrants = [u \in UserIds |-> 0]
    /\ deliveries = [d \in DeliveryIds |-> Pending]
    /\ jwts = {}
    /\ premiumLast = Null

HookNext ==
    \/ \E d \in DeliveryIds, payload \in StripeEvents :
          \E signature \in Signatures(payload) : Receive(d, payload, signature)
    \/ \E d \in DeliveryIds : CheckoutCustomer(d)
    \/ \E d \in DeliveryIds : CheckoutSelect(d)
    \/ \E d \in DeliveryIds : CheckoutUpsert(d)
    \/ \E d \in DeliveryIds : CheckoutEntry(d)
    \/ \E d \in DeliveryIds : CheckoutPlan(d)
    \/ \E d \in DeliveryIds : UpdatedSubscription(d)
    \/ \E d \in DeliveryIds : UpdatedPlan(d)
    \/ \E d \in DeliveryIds : DeletedSelect(d)
    \/ \E d \in DeliveryIds : DeletedEntries(d)
    \/ \E d \in DeliveryIds : DeletedSubscription(d)
    \/ \E d \in DeliveryIds : DeletedPlan(d)
    \/ \E d \in DeliveryIds : InvoiceSelect(d)
    \/ \E d \in DeliveryIds : InvoiceEntry(d)
    \/ \E d \in DeliveryIds : InvoiceEndDate(d)
    \/ \E d \in DeliveryIds : WriteRejects(d)

-----------------------------------------------------------------------------
(* authenticate, requirePremium and the tokens of JWTUtil                   *)

\* JWTUtil.generateAccessToken / generateRefreshToken: a signed payload
Jwt(kind, payload) ==
    [kind |-> kind, id |-> payload.id, email |-> payload.email, plan |-> payload.plan]

\* JWTUtil.generateTokenPair
generateTokenPair(payload) == {Jwt("access", payload), Jwt("refresh", payload)}

\* what a request can send: a token issued earlier, or none
NoJwt == [kind |-> "", id |-> "", email |-> "", plan |-> ""]

\* AuthService.login lines 91-152: the tokens carry the plan of the user's row
Login(email, password) ==
    /\ UsersByEmail(users, email) # {}
    /\ PasswordCompare(password, users[email].password)
    /\ users[email].isVerified
    /\ jwts' = jwts \cup generateTokenPair([id |-> users[email].id, email |-> email,
                                            plan |-> users[email].plan])
    /\ UNCHANGED <<users, subscriptions, subscriptionEntries, authNow, issued, mail,
                   authLast, verifiedLog, resetGrants, deliveries, premiumLast>>
    /\ AcctFrame

\* AuthService.refreshToken lines 339-362: the new access token copies the
\* payload of the refresh token
RefreshToken(token) ==
    /\ token \in jwts
    /\ token.kind = "refresh"
    /\ jwts' = jwts \cup {Jwt("access", [id |-> token.id, email |-> token.email,
                                         plan |-> token.plan])}
    /\ UNCHANGED <<users, subscriptions, subscriptionEntries, authNow, issued, mail,
                   authLast, verifiedLog, resetGrants, deliveries, premiumLast>>
    /\ AcctFrame

\* a token reaches its expiry: verifyAccessToken / verifyRefreshToken throw
JwtExpires(token) ==
    /\ token \in jwts
    /\ jwts' = jwts \ {token}
    /\ UNCHANGED <<users, subscriptions, subscriptionEntries, authNow, issued, mail,
                   authLast, verifiedLog, resetGrants, deliveries, premiumLast>>
    /\ AcctFrame

\* part_009 lines 11-46: req.user is the payload of a valid access token
authenticate(token) ==
    IF token \in jwts /\ token.kind = "access"
    THEN [id |-> token.id, email |-> token.email, plan |-> token.plan]
    ELSE NoJwt

\* part_009 lines 51-69: the status of the request, 200 when next() is called
requirePremium(reqUser) ==
    IF reqUser.id = "" THEN 401
    ELSE IF reqUser.plan # "premium" THEN 403
    ELSE 200

\* whether a customer.subscription.deleted event has set the plan of the user
\* to free
Downgraded(userId) ==
    \E d \in DeliveryIds :
       /\ deliveries[d].pc = "responded"
       /\ deliveries[d].status = 200
       /\ deliveries[d].event.type = "customer.subscription.deleted"
       /\ deliveries[d].user # ""
       /\ users[deliveries[d].user].id = userId

\* part_007 lines 27-28: a request to /stock-analyzer or /portfolio-optimizer
PremiumRequest(token) ==
    /\ LET reqUser == authenticate(token)
       IN premiumLast' = [token |-> token,
                          status |-> IF reqUser.id = "" THEN 401
                                     ELSE requirePremium(reqUser),
                          downgraded |-> reqUser.id # "" /\ Downgraded(reqUser.id)]
    /\ UNCHANGED <<users, subscriptions, subscriptionEntries, authNow, issued, mail,
                   authLast, verifiedLog, resetGrants, deliveries, jwts>>
    /\ AcctFrame

\* a premium subscriber: the state a completed checkout leaves
PremiumSubscriber ==
    [Subscriber EXCEPT !.plan = "premium", !.customerId = "cus_ann"]

AccessInit ==
    /\ users = [e \in Emails |-> IF e = "ann@example.com" THEN PremiumSubscriber
                                                         ELSE Null]
    /\ subscriptions = <<[id |-> 1, userId |-> IdOf("ann@example.com"),
                          plan |-> "premium", period |-> "monthly", endDate |-> 2]>>
    /\ subscriptionEntries = <<[subscriptionId |-> 1, invoiceId |-> "INV-1",
                                status |-> "Subscribed"],
                               [subscriptionId |-> 1, invoiceId |-> "INV-2",
                                status |-> "Renewal"]>>
    /\ authNow = 0
    /\ issued = <<>>
    /\ mail = <<>>
    /\ authLast = NoCall
    /\ verifiedLog = <<>>
    /\ resetGrants = [u \in UserIds |-> 0]
    /\ deliveries = [d \in DeliveryIds |-> Pending]
    /\ jwts = {}
    /\ premiumLast = Null

AccessNext ==
    \/ \E e \in Emails, a \in Applicants : Login(e, a.password)
    \/ \E t \in jwts : RefreshToken(t)
    \/ \E t \in jwts : JwtExpires(t)
    \/ \E t \in jwts \cup {NoJwt} : PremiumRequest(t)
    \/ \E d \in DeliveryIds :
          \E signature \in Signatures(SubscriptionDeleted) :
             Receive(d, SubscriptionDeleted, signature)
    \/ \E d \in DeliveryIds : DeletedSelect(d)
    \/ \E d \in DeliveryIds : DeletedEntries(d)
    \/ \E d \in DeliveryIds : DeletedSubscription(d)
    \/ \E d \in DeliveryIds : DeletedPlan(d)
    \/ \E d \in DeliveryIds : WriteRejects(d)

\* ---- claims about premium access ----

\* C27: once customer.subscription.deleted has set the user's plan to free,
\* no later request of that user passes requirePremium, whether its access
\* token was issued before the downgrade or obtained afterwards from a
\* refresh token issued before it.
C27_NoPremiumAfterDowngrade ==
    (premiumLast # Null /\ premiumLast.downgraded) => premiumLast.status # 200

\* ---- claims about webhooks ----

\* C21: an event reaches handleStripeWebhook only after its signature was
\* verified; a request without the header or with a signature that fails
\* verification is answered 400 and changes no user, subscription or entry.
C21_UnverifiedNeverHandled ==
    \A d \in DeliveryIds :
       /\ (/\ deliveries[d].pc # "pending"
           /\ deliveries[d].signature # SignatureOf(deliveries[d].event)) =>
              /\ deliveries[d].pc = "responded"
              /\ deliveries[d].status = 400
              /\ ~deliveries[d].handled
              /\ deliveries[d].writes = 0
              /\ deliveries[d].after = deliveries[d].before
       /\ deliveries[d].handled =>
              deliveries[d].signature = SignatureOf(deliveries[d].event)

\* a forged signature was refused while another delivery was handled
C21_Witness ==
    \E d, c \in DeliveryIds :
       /\ deliveries[d].pc = "responded"
       /\ deliveries[d].signature \notin {NoSignature, SignatureOf(deliveries[d].event)}
       /\ deliveries[d].status = 400
       /\ deliveries[c].handled
       /\ deliveries[c].writes > 0

\* C24: whatever the interleaving of the handlers, the subscriptions table
\* holds at most one row per user.
C24_OneRowPerUser ==
    \A u \in UserIds :
       Cardinality({i \in DOMAIN subscriptions : subscriptions[i].userId = u}) <= 1

\* C25: a checkout.session.completed or invoice.payment_succeeded event that
\* is processed again after it was processed once leaves the tables, and so
\* the number of invoice entries, as the first processing left them.
C25_RedeliveryChangesNothing ==
    \A d \in DeliveryIds :
       (/\ deliveries[d].pc = "responded"
        /\ deliveries[d].status = 200
        /\ deliveries[d].redelivery
        /\ deliveries[d].event.type \in {"checkout.session.completed",
                                         "invoice.payment_succeeded"}) =>
           deliveries[d].after = deliveries[d].before

\* C26: when no handler is in progress, every completed or failed part-way,
\* each user with a subscriptions row has the plan of that row.
C26_PlanAgrees ==
    (\A d \in DeliveryIds : deliveries[d].pc \in {"pending", "responded"}) =>
        \A i \in DOMAIN subscriptions : \A e \in Emails :
           (users[e] # Null /\ users[e].id = subscriptions[i].userId) =>
               users[e].plan = subscriptions[i].plan

\* ---- claims about accounts ----

\* C22: a signup with the email of an already verified user is rejected with
\* a bad-request error, leaves every stored row as it was (name, password,
\* verification state and tokens) and sends no email.
C22_VerifiedSignupRejected ==
    (/\ authLast.op = "signup"
     /\ authLast.usersBefore[authLast.arg] # Null
     /\ authLast.usersBefore[authLast.arg].isVerified) =>
        /\ authLast.error =
              ApiErrorBadRequest("An account with this email address already exists.")
        /\ users = authLast.usersBefore
        /\ mail = authLast.mailBefore

C22_Witness ==
    /\ authLast.op = "signup"
    /\ authLast.usersBefore[authLast.arg] # Null
    /\ authLast.usersBefore[authLast.arg].isVerified
    /\ authLast.error.statusCode = 400
    /\ mail # <<>>

\* C23: verifyEmail succeeds only for a token equal to a stored verifyToken
\* whose expiry lies in the future; on success the user is verified and the
\* token and its expiry are cleared; no token verifies twice, and no token
\* verifies an hour or more after it was generated.
C23_VerifyOnceInTime ==
    /\ (authLast.op = "verifyEmail" /\ authLast.error = NoError) =>
          \E e \in Emails :
             /\ authLast.usersBefore[e] # Null
             /\ authLast.usersBefore[e].verifyToken = authLast.arg
             /\ authLast.usersBefore[e].verifyTokenExpiry > authLast.at
             /\ users[e].isVerified
             /\ users[e].verifyToken = NoToken
             /\ users[e].verifyTokenExpiry = NoDate
    /\ \A i, j \in DOMAIN verifiedLog :
          i # j => verifiedLog[i].token # verifiedLog[j].token
    /\ \A i \in DOMAIN verifiedLog :
          verifiedLog[i].at - issued[verifiedLog[i].token] < TokenLifetime

\* a token that verified is presented again and refused
C23_Witness ==
    /\ authLast.op = "verifyEmail"
    /\ authLast.error # NoError
    /\ \E i \in DOMAIN verifiedLog : verifiedLog[i].token = authLast.arg

\* C28: changePassword changes the stored password only if a reset token of
\* that user was verified by verifyResetToken earlier and has not been used
\* for a password change yet.
C28_PasswordNeedsResetToken ==
    (/\ authLast.op = "changePassword"
     /\ \E e \in Emails : /\ authLast.usersBefore[e] # Null
                          /\ users[e].password # authLast.usersBefore[e].password) =>
        authLast.grantsBefore[authLast.arg] > 0

-----------------------------------------------------------------------------
(* Specifications *)

InitLoan == LoanInit /\ FetchIdle /\ StockIdle /\ OptIdle /\ CalcIdle /\ AnIdle /\ SvcIdle /\ AcctIdle /\ now = 0
SpecLoan == InitLoan /\ [][LoanNext]_vars

InitFetch == FetchInit /\ LoanIdle /\ StockIdle /\ OptIdle /\ CalcIdle /\ AnIdle /\ SvcIdle /\ AcctIdle
SpecFetch == InitFetch /\ [][FetchNext]_vars

InitStock == StockInit /\ LoanIdle /\ FetchIdle /\ OptIdle /\ CalcIdle /\ AnIdle /\ SvcIdle /\ AcctIdle
SpecStock == InitStock /\ [][StockNext]_vars

InitOpt == OptInit /\ LoanIdle /\ FetchIdle /\ StockIdle /\ CalcIdle /\ AnIdle /\ SvcIdle /\ AcctIdle /\ now = 0
SpecOpt == InitOpt /\ [][OptNext]_vars

InitCalc == CalcInit /\ LoanIdle /\ FetchIdle /\ StockIdle /\ OptIdle /\ AnIdle /\ SvcIdle /\ AcctIdle /\ now = 0
SpecCalc == InitCalc /\ [][CalcNext]_vars

InitAn == AnInit /\ CalcIdle /\ FetchIdle /\ LoanIdle /\ OptIdle /\ StockIdle /\ SvcIdle /\ AcctIdle /\ now = 0
SpecAn == InitAn /\ [][AnNext]_vars

InitSvc == SvcInit /\ AnIdle /\ CalcIdle /\ FetchIdle /\ LoanIdle /\ OptIdle /\ StockIdle /\ AcctIdle /\ now = 0
SpecSvc == InitSvc /\ [][SvcNext]_vars

\* one call of any calculator of the service
InitService == InitLoan \/ InitFetch \/ InitAn \/ InitSvc
NextService == LoanNext \/ FetchNext \/ AnNext \/ SvcNext
SpecService == InitService /\ [][NextService]_vars

InitAuth == AuthInit /\ AnIdle /\ CalcIdle /\ FetchIdle /\ LoanIdle /\ OptIdle /\ StockIdle /\ SvcIdle /\ now = 0
SpecAuth == InitAuth /\ [][AuthNext]_vars

InitHook == HookInit /\ AnIdle /\ CalcIdle /\ FetchIdle /\ LoanIdle /\ OptIdle /\ StockIdle /\ SvcIdle /\ now = 0
SpecHook == InitHook /\ [][HookNext]_vars

InitAccess == AccessInit /\ AnIdle /\ CalcIdle /\ FetchIdle /\ LoanIdle /\ OptIdle /\ StockIdle /\ SvcIdle /\ now = 0
SpecAccess == InitAccess /\ [][AccessNext]_vars

=============================================================================
